---- MODULE Spec2Model ----
(***************************************************************************)
(* Model of the OpenSSF Scorecard exporter: the ConfigMap reconciler       *)
(* (internal/controller), the VCS provider and its error classifier        *)
(* (internal/vcs), the scorecard client (internal/scorecard) and the       *)
(* metrics collector (internal/metrics).                                   *)
(*                                                                         *)
(* Go strings are TLA+ strings; durations and times are whole seconds.     *)
(* One reconciler worker runs one pass (one call of Reconcile) at a time;  *)
(* pc is the statement the worker stands at, the values "ret..." being the *)
(* return statements of Reconcile.                                         *)
(***************************************************************************)
EXTENDS Integers, Sequences, FiniteSets, TLC

VARIABLES
    now,                \* wall clock, Unix seconds
    passes,             \* number of passes started so far
    pc,                 \* statement of Reconcile the worker stands at
    req,                \* req.NamespacedName.String() of the pass
    configMap,          \* configMap.Data of the loaded descriptor
    organization,       \* local of Reconcile
    providerType,       \* local of Reconcile
    baseURL,            \* local of Reconcile
    secret,             \* the secret and the error the API server gave for it
    vcsToken,           \* local of Reconcile
    provider,           \* local of Reconcile
    listResp,           \* answer of the listing endpoint that failed the listing
    listErr,            \* err returned by GetRepositories
    repos,              \* local of Reconcile
    idx,                \* position of the range loop over repos (1-based)
    fetchResp,          \* last answer of the score endpoint
    fetchErr,           \* last err returned by GetScorecardData
    ret,                \* (ctrl.Result, error) returned by Reconcile
    calls,              \* number of calls of each operation in the pass
    trace,              \* the calls of the pass, in the order they were made
    cancelled,          \* ctx of Reconcile is done
    overallScore,       \* Collector.overallScore gauge vector
    checkScore,         \* Collector.checkScore gauge vector
    checkStatus,        \* Collector.checkStatus gauge vector
    lastUpdate,         \* Collector.lastUpdate gauge vector
    registeredMetrics,  \* Collector.registeredMetrics
    mu,                 \* worker that holds Collector.mu, "" when unlocked
    upserting,          \* where each worker stands in UpdateMetrics
    arg,                \* arguments of an operation called on its own
    out                 \* what that call returned

passVars == <<pc, req, configMap, organization, providerType, baseURL,
              secret, vcsToken, provider, listResp, listErr,
              repos, idx, fetchResp, fetchErr, ret, calls, trace>>
storeVars == <<overallScore, checkScore, checkStatus, lastUpdate,
               registeredMetrics>>
workerVars == <<mu, upserting>>
callVars == <<arg, out>>
vars == <<now, passes, passVars, cancelled, storeVars, workerVars, callVars>>

(***************************************************************************)
(* Bounds of the model.                                                    *)
(***************************************************************************)
Now0 == 1736200000
MaxTicks == 1
MaxPasses == 1
RequeueInterval == 10
MaxJitterPercent == 10
MaxUpserts == 2
MaxRelists == 2

(***************************************************************************)
(* Strings.                                                                *)
(***************************************************************************)
UpperLetters == "ABCDEFGHIJKLMNOPQRSTUVWXYZ"
LowerLetters == "abcdefghijklmnopqrstuvwxyz"

LowerChar(c) ==
    IF \E i \in 1..26 : SubSeq(UpperLetters, i, i) = c
    THEN LET i == CHOOSE j \in 1..26 : SubSeq(UpperLetters, j, j) = c
         IN SubSeq(LowerLetters, i, i)
    ELSE c

RECURSIVE ToLower(_)
ToLower(s) ==
    IF Len(s) = 0 THEN ""
    ELSE IF Len(s) = 1 THEN LowerChar(s)
    ELSE LET half == Len(s) \div 2
         IN  ToLower(SubSeq(s, 1, half)) \o ToLower(SubSeq(s, half + 1, Len(s)))

Contains(s, substr) ==
    \E i \in 1..(Len(s) - Len(substr) + 1) :
        SubSeq(s, i, i + Len(substr) - 1) = substr

HasSuffix(s, suffix) ==
    /\ Len(s) >= Len(suffix)
    /\ SubSeq(s, Len(s) - Len(suffix) + 1, Len(s)) = suffix

Digits == "0123456789"

IsDigit(c) == \E i \in 1..10 : SubSeq(Digits, i, i) = c

DigitVal(c) == (CHOOSE i \in 1..10 : SubSeq(Digits, i, i) = c) - 1

RECURSIVE DigitsVal(_)
DigitsVal(s) ==
    IF Len(s) = 0 THEN 0
    ELSE 10 * DigitsVal(SubSeq(s, 1, Len(s) - 1))
         + DigitVal(SubSeq(s, Len(s), Len(s)))

\* strconv.Atoi: an optional sign followed by one or more decimal digits
Atoi(s) ==
    LET signed == Len(s) > 0 /\ SubSeq(s, 1, 1) \in {"+", "-"}
        body == IF signed THEN SubSeq(s, 2, Len(s)) ELSE s
        ok == Len(body) > 0
              /\ \A i \in 1..Len(body) : IsDigit(SubSeq(body, i, i))
    IN  IF ~ok THEN [ok |-> FALSE, val |-> 0]
        ELSE [ok |-> TRUE,
              val |-> IF signed /\ SubSeq(s, 1, 1) = "-"
                      THEN 0 - DigitsVal(body) ELSE DigitsVal(body)]

\* Go map lookup: the zero value for a missing key
Lookup(m, k) == IF k \in DOMAIN m THEN m[k] ELSE ""

Put(m, k, v) == [x \in (DOMAIN m) \cup {k} |-> IF x = k THEN v ELSE m[x]]

EmptyMap == [x \in {} |-> 0]

(***************************************************************************)
(* Error values.  An error is a record: kind "nil" is the nil error, kind  *)
(* "error" a plain error with its message, kind "wrapped" an error made    *)
(* by fmt.Errorf with %w, kind "RateLimitError" a *vcs.RateLimitError and  *)
(* the kinds "github...." the typed errors of the go-github client.        *)
(***************************************************************************)
NilErr == [kind |-> "nil"]

\* the zero time.Time (year 1) lies before every Unix time of the model
ZeroTime == 0 - 2000000000

\* a nil *time.Duration
NilDuration == ZeroTime - 1

DefaultRetryAfter == 300

ProviderTypeGitHub == "github"
ProviderTypeGitLab == "gitlab"
ProviderTypeBitbucket == "bitbucket"

Errorf(msg) == [kind |-> "error", msg |-> msg]

\* two decimal digits
Pad2(n) == IF n < 10 THEN "0" \o ToString(n) ELSE ToString(n)

\* time.Duration.String of a whole number of seconds
formatDuration(d) ==
    LET a == IF d < 0 THEN 0 - d ELSE d
        h == a \div 3600
        m == (a % 3600) \div 60
        sec == a % 60
        text == IF h > 0
                THEN ToString(h) \o "h" \o ToString(m) \o "m"
                     \o ToString(sec) \o "s"
                ELSE IF m > 0
                THEN ToString(m) \o "m" \o ToString(sec) \o "s"
                ELSE ToString(sec) \o "s"
    IN  IF d < 0 THEN "-" \o text ELSE text

\* t.Format(time.RFC3339) of a Unix time >= 0, the process running in UTC
formatRFC3339(t) ==
    LET z == (t \div 86400) + 719468
        era == z \div 146097
        doe == z - era * 146097
        yoe == (doe - doe \div 1460 + doe \div 36524 - doe \div 146096)
               \div 365
        doy == doe - (365 * yoe + yoe \div 4 - yoe \div 100)
        mp == (5 * doy + 2) \div 153
        day == doy - (153 * mp + 2) \div 5 + 1
        month == IF mp < 10 THEN mp + 3 ELSE mp - 9
        year == yoe + era * 400 + (IF month <= 2 THEN 1 ELSE 0)
        secs == t % 86400
    IN  ToString(year) \o "-" \o Pad2(month) \o "-" \o Pad2(day) \o "T"
        \o Pad2(secs \div 3600) \o ":" \o Pad2((secs % 3600) \div 60)
        \o ":" \o Pad2(secs % 60) \o "Z"

\* (*RateLimitError).Error
RateLimitErrorString(e) ==
    IF e.RetryAfter > 0
    THEN e.Provider \o " API rate limit exceeded: " \o e.Message
         \o " (retry after " \o formatDuration(e.RetryAfter) \o ")"
    ELSE IF e.ResetTime # ZeroTime
    THEN e.Provider \o " API rate limit exceeded: " \o e.Message
         \o " (resets at " \o formatRFC3339(e.ResetTime) \o ")"
    ELSE e.Provider \o " API rate limit exceeded: " \o e.Message

\* err.Error()
ErrorString(err) ==
    IF err.kind = "RateLimitError" THEN RateLimitErrorString(err)
    ELSE err.msg

\* fmt.Errorf(prefix + "%w", inner)
Wrapf(prefix, inner) ==
    [kind |-> "wrapped", msg |-> prefix \o ErrorString(inner),
     inner |-> inner]

NewRateLimitError(prov, message) ==
    [kind |-> "RateLimitError", Provider |-> prov, Message |-> message,
     RetryAfter |-> 0, Limit |-> 0, Remaining |-> 0, ResetTime |-> ZeroTime]

\* variant: setting the delay forgets the reset time
WithRetryAfter_clearsReset(e, duration) ==
    [e EXCEPT !.RetryAfter = duration, !.ResetTime = ZeroTime]

WithRetryAfter(e, duration) == [e EXCEPT !.RetryAfter = duration]

WithResetTime(e, resetTime) == [e EXCEPT !.ResetTime = resetTime]

WithRateLimitInfo(e, limit, remaining) ==
    [e EXCEPT !.Limit = limit, !.Remaining = remaining]

\* errors.As(err, &rateLimitErr): the first *RateLimitError of the chain
RECURSIVE AsRateLimitError(_)
AsRateLimitError(err) ==
    CASE err.kind = "RateLimitError" -> err
      [] err.kind = "wrapped" -> AsRateLimitError(err.inner)
      [] OTHER -> NilErr

rateLimitIndicators ==
    <<"rate limit", "rate-limit", "ratelimit", "too many requests", "429",
      "quota exceeded", "api rate limit exceeded">>

\* variant: the message is searched as it is written
IsRateLimitError_caseSensitive(err) ==
    IF err = NilErr THEN FALSE
    ELSE IF AsRateLimitError(err) # NilErr THEN TRUE
    ELSE \E i \in 1..Len(rateLimitIndicators) :
             Contains(ErrorString(err), rateLimitIndicators[i])

IsRateLimitError(err) ==
    IF err = NilErr THEN FALSE
    ELSE IF AsRateLimitError(err) # NilErr THEN TRUE
    ELSE LET errMsg == ToLower(ErrorString(err))
         IN \E i \in 1..Len(rateLimitIndicators) :
                Contains(errMsg, rateLimitIndicators[i])

\* variant: the reset time is looked at before the explicit delay
GetRetryAfter_resetFirst(err) ==
    IF err = NilErr THEN 0
    ELSE LET rateLimitErr == AsRateLimitError(err)
         IN IF rateLimitErr # NilErr
               /\ rateLimitErr.ResetTime # ZeroTime
               /\ rateLimitErr.ResetTime - now > 0
            THEN rateLimitErr.ResetTime - now
            ELSE IF rateLimitErr # NilErr /\ rateLimitErr.RetryAfter > 0
            THEN rateLimitErr.RetryAfter
            ELSE DefaultRetryAfter

\* variant: a reset time equal to now is taken as it is
GetRetryAfter_nonNegative(err) ==
    IF err = NilErr THEN 0
    ELSE LET rateLimitErr == AsRateLimitError(err)
         IN IF rateLimitErr # NilErr /\ rateLimitErr.RetryAfter > 0
            THEN rateLimitErr.RetryAfter
            ELSE IF rateLimitErr # NilErr
                    /\ rateLimitErr.ResetTime # ZeroTime
                    /\ rateLimitErr.ResetTime - now >= 0
            THEN rateLimitErr.ResetTime - now
            ELSE DefaultRetryAfter

GetRetryAfter(err) ==
    IF err = NilErr THEN 0
    ELSE LET rateLimitErr == AsRateLimitError(err)
         IN IF rateLimitErr # NilErr /\ rateLimitErr.RetryAfter > 0
            THEN rateLimitErr.RetryAfter
            ELSE IF rateLimitErr # NilErr
                    /\ rateLimitErr.ResetTime # ZeroTime
                    /\ rateLimitErr.ResetTime - now > 0
            THEN rateLimitErr.ResetTime - now
            ELSE DefaultRetryAfter

(***************************************************************************)
(* The provider factory and the GitHub provider.                           *)
(***************************************************************************)
DefaultGitHubAPIURL == "https://api.github.com/"
DefaultGitHubScorecardURL == "github.com"

NilProvider == [kind |-> "nil"]

\* url.Parse: the raw URLs of the model that it rejects
UnparsableURLs == {"http://[::1/"}

urlParse(rawURL) ==
    IF rawURL \in UnparsableURLs
    THEN [url |-> "",
          err |-> Errorf("parse \"" \o rawURL \o "\": missing ']' in host")]
    ELSE [url |-> rawURL, err |-> NilErr]

NewGitHubProvider(config) ==
    LET withSlash == IF HasSuffix(config.BaseURL, "/") THEN config.BaseURL
                     ELSE config.BaseURL \o "/"
        u == urlParse(withSlash)
    IN  IF config.BaseURL # "" /\ u.err # NilErr
        THEN [provider |-> NilProvider,
              err |-> Wrapf("failed to parse base URL: ", u.err)]
        ELSE [provider |-> [kind |-> ProviderTypeGitHub,
                            BaseURL |-> IF config.BaseURL # "" THEN u.url
                                        ELSE DefaultGitHubAPIURL,
                            token |-> config.Token,
                            scorecardURL |-> DefaultGitHubScorecardURL],
              err |-> NilErr]

\* ProviderFactory.providers as NewProviderFactory leaves it
providers == {ProviderTypeGitHub}

\* variant: a kind without constructor gets the GitHub provider
CreateProvider_fallback(config) == NewGitHubProvider(config)

CreateProvider(config) ==
    IF config.Type \notin providers
    THEN [provider |-> NilProvider,
          err |-> Errorf("unsupported provider type: " \o config.Type)]
    ELSE NewGitHubProvider(config)

GetProviderType(p) == ProviderTypeGitHub

\* variant: the path starts with the address of the provider's API
GetScorecardURL_byBaseURL(p, org, repository) ==
    p.BaseURL \o org \o "/" \o repository

GetScorecardURL(p, org, repository) ==
    p.scorecardURL \o "/" \o org \o "/" \o repository

NilRepo == [nil |-> TRUE]

\* variant: forks are let through
shouldIncludeRepository_forksPass(repo) ==
    IF repo = NilRepo THEN FALSE
    ELSE ~repo.Private /\ ~repo.Archived /\ ~repo.Disabled

shouldIncludeRepository(repo) ==
    IF repo = NilRepo THEN FALSE
    ELSE ~repo.Private /\ ~repo.Archived /\ ~repo.Disabled /\ ~repo.Fork

(***************************************************************************)
(* The go-github client as GetRepositories uses it: one call of            *)
(* Repositories.ListByOrg sends one request and turns the answer of the    *)
(* listing endpoint into (repos, resp.NextPage, err).  An answer is a      *)
(* record of the status code (0: the transport failed, no answer), the     *)
(* rate-limit headers, the fields of the JSON error body and, for 200,     *)
(* the repositories of the page and the next page of the Link header.      *)
(***************************************************************************)
PerPage == 100

listURL(p, org, page) ==
    p.BaseURL \o "orgs/" \o org \o "/repos?"
    \o (IF page > 0 THEN "page=" \o ToString(page) \o "&" ELSE "")
    \o "per_page=" \o ToString(PerPage) \o "&type=public"

\* strconv.ParseInt of a header holding Unix seconds; 0 when absent or bad
parseRateReset(resp) ==
    IF resp.reset # "" /\ Atoi(resp.reset).ok /\ Atoi(resp.reset).val # 0
    THEN Atoi(resp.reset).val ELSE ZeroTime

parseRate(resp) ==
    [Limit |-> Atoi(resp.limit).val,
     Remaining |-> Atoi(resp.remaining).val,
     Reset |-> parseRateReset(resp)]

parseSecondaryRate(resp) ==
    IF resp.retryAfter # ""
    THEN IF Atoi(resp.retryAfter).ok THEN Atoi(resp.retryAfter).val
         ELSE NilDuration
    ELSE IF resp.reset # ""
    THEN IF Atoi(resp.reset).ok THEN Atoi(resp.reset).val - now
         ELSE NilDuration
    ELSE NilDuration

formatRateReset(d) ==
    LET secondsTotal == IF d < 0 THEN 0 - d ELSE d
        minutes == secondsTotal \div 60
        seconds == secondsTotal - minutes * 60
        timeString ==
            IF minutes > 0
            THEN ToString(minutes) \o "m"
                 \o (IF seconds < 10 THEN "0" ELSE "") \o ToString(seconds)
                 \o "s"
            ELSE ToString(seconds) \o "s"
    IN  IF d < 0 THEN "[rate limit was reset " \o timeString \o " ago]"
        ELSE "[rate reset in " \o timeString \o "]"

responseLine(url, resp) ==
    "GET " \o url \o ": " \o ToString(resp.status) \o " " \o resp.message

githubErrorResponse(url, resp) ==
    [kind |-> "github.ErrorResponse",
     msg |-> responseLine(url, resp) \o " []"]

githubRateLimitError(url, resp) ==
    [kind |-> "github.RateLimitError",
     msg |-> responseLine(url, resp) \o " "
             \o formatRateReset(parseRate(resp).Reset - now),
     Rate |-> parseRate(resp)]

githubAbuseRateLimitError(url, resp) ==
    [kind |-> "github.AbuseRateLimitError",
     msg |-> responseLine(url, resp),
     RetryAfter |-> parseSecondaryRate(resp)]

isSecondaryDoc(resp) ==
    \/ HasSuffix(resp.documentationURL, "#abuse-rate-limits")
    \/ HasSuffix(resp.documentationURL, "secondary-rate-limits")

\* github.CheckResponse: the errors the client may return for an answer.
\* Releases of the client differ on whether a 429 is classified like a 403.
CheckResponse(url, resp) ==
    CASE resp.status = 403 /\ resp.remaining = "0" ->
            {githubRateLimitError(url, resp)}
      [] resp.status = 429 /\ resp.remaining = "0" ->
            {githubRateLimitError(url, resp), githubErrorResponse(url, resp)}
      [] resp.status = 403 /\ isSecondaryDoc(resp) ->
            {githubAbuseRateLimitError(url, resp)}
      [] resp.status = 429 /\ isSecondaryDoc(resp) ->
            {githubAbuseRateLimitError(url, resp),
             githubErrorResponse(url, resp)}
      [] OTHER -> {githubErrorResponse(url, resp)}

\* the results (repos, resp.NextPage, err) ListByOrg may return
ListByOrg(p, org, page, resp) ==
    CASE resp.status = 0 /\ resp.message = "context canceled" ->
            {[repos |-> <<>>, NextPage |-> 0,
              err |-> Errorf("context canceled")]}
      [] resp.status = 0 ->
            {[repos |-> <<>>, NextPage |-> 0,
              err |-> Errorf("Get \"" \o listURL(p, org, page) \o "\": "
                             \o resp.message)]}
      [] resp.status = 200 ->
            {[repos |-> resp.items, NextPage |-> resp.nextPage,
              err |-> NilErr]}
      [] OTHER ->
            {[repos |-> <<>>, NextPage |-> 0, err |-> e] :
                e \in CheckResponse(listURL(p, org, page), resp)}

handleError(err) ==
    CASE err = NilErr -> NilErr
      [] err.kind = "github.RateLimitError" ->
            WithResetTime(
                WithRateLimitInfo(
                    NewRateLimitError(ProviderTypeGitHub, ErrorString(err)),
                    err.Rate.Limit, err.Rate.Remaining),
                err.Rate.Reset)
      [] err.kind = "github.AbuseRateLimitError" ->
            IF err.RetryAfter # NilDuration
            THEN WithRetryAfter(
                     NewRateLimitError(ProviderTypeGitHub, ErrorString(err)),
                     err.RetryAfter)
            ELSE NewRateLimitError(ProviderTypeGitHub, ErrorString(err))
      [] OTHER -> err

\* the names of the repositories of a page that pass the filter, in order
RECURSIVE filterNames(_)
filterNames(page) ==
    IF page = <<>> THEN <<>>
    ELSE (IF shouldIncludeRepository(Head(page)) THEN <<Head(page).Name>>
          ELSE <<>>) \o filterNames(Tail(page))

\* the answer for a page past the last one the backend has: an empty page
EmptyPage ==
    [status |-> 200, limit |-> "", remaining |-> "", reset |-> "",
     retryAfter |-> "", documentationURL |-> "", message |-> "",
     items |-> <<>>, nextPage |-> 0]

\* variant: the listing ends at the first page shorter than the page size
\* and asks for the pages one after the other
RECURSIVE getRepositoriesLoop_byLength(_, _, _, _, _, _)
getRepositoriesLoop_byLength(p, org, listing, page, allRepos, sent) ==
    LET answer == IF listing = <<>> THEN EmptyPage ELSE Head(listing)
        rest == IF listing = <<>> THEN <<>> ELSE Tail(listing)
        urls == Append(sent, listURL(p, org, page))
    IN  UNION {
            IF r.err # NilErr
            THEN {[repos |-> <<>>, err |-> handleError(r.err),
                   resp |-> answer, urls |-> urls, requests |-> Len(urls)]}
            ELSE IF Len(r.repos) < PerPage
            THEN {[repos |-> allRepos \o filterNames(r.repos),
                   err |-> NilErr, resp |-> answer, urls |-> urls,
                   requests |-> Len(urls)]}
            ELSE getRepositoriesLoop_byLength(
                     p, org, rest, Len(urls) + 1,
                     allRepos \o filterNames(r.repos), urls)
            : r \in ListByOrg(p, org, page, answer) }

\* variant: a page that fails returns the names of the pages before it
RECURSIVE getRepositoriesLoop_keepPages(_, _, _, _, _, _)
getRepositoriesLoop_keepPages(p, org, listing, page, allRepos, sent) ==
    LET answer == IF listing = <<>> THEN EmptyPage ELSE Head(listing)
        rest == IF listing = <<>> THEN <<>> ELSE Tail(listing)
        urls == Append(sent, listURL(p, org, page))
    IN  UNION {
            IF r.err # NilErr
            THEN {[repos |-> allRepos, err |-> handleError(r.err),
                   resp |-> answer, urls |-> urls, requests |-> Len(urls)]}
            ELSE IF r.NextPage = 0
            THEN {[repos |-> allRepos \o filterNames(r.repos),
                   err |-> NilErr, resp |-> answer, urls |-> urls,
                   requests |-> Len(urls)]}
            ELSE getRepositoriesLoop_keepPages(
                     p, org, rest, r.NextPage,
                     allRepos \o filterNames(r.repos), urls)
            : r \in ListByOrg(p, org, page, answer) }

\* the loop of GetRepositories from the request for page on, the backend
\* answering the requests with the answers of listing in turn and sent
\* being the URLs requested so far: the results (repos, err) it may return,
\* with the answer that ended it, the URLs requested and their number
RECURSIVE getRepositoriesLoop(_, _, _, _, _, _)
getRepositoriesLoop(p, org, listing, page, allRepos, sent) ==
    LET answer == IF listing = <<>> THEN EmptyPage ELSE Head(listing)
        rest == IF listing = <<>> THEN <<>> ELSE Tail(listing)
        urls == Append(sent, listURL(p, org, page))
    IN  UNION {
            IF r.err # NilErr
            THEN {[repos |-> <<>>, err |-> handleError(r.err),
                   resp |-> answer, urls |-> urls, requests |-> Len(urls)]}
            ELSE IF r.NextPage = 0
            THEN {[repos |-> allRepos \o filterNames(r.repos),
                   err |-> NilErr, resp |-> answer, urls |-> urls,
                   requests |-> Len(urls)]}
            ELSE getRepositoriesLoop(p, org, rest, r.NextPage,
                                     allRepos \o filterNames(r.repos), urls)
            : r \in ListByOrg(p, org, page, answer) }

GetRepositories(p, org, listing) ==
    getRepositoriesLoop(p, org, listing, 0, <<>>, <<>>)

repoURL(p, org, repository) ==
    p.BaseURL \o "repos/" \o org \o "/" \o repository

\* the results (repo, err) Repositories.Get may return for an answer
RepositoriesGet(p, org, repository, resp) ==
    CASE resp.status = 0 ->
            {[repo |-> NilRepo,
              err |-> Errorf("Get \"" \o repoURL(p, org, repository)
                             \o "\": " \o resp.message)]}
      [] resp.status = 200 ->
            {[repo |-> resp.items[1], err |-> NilErr]}
      [] OTHER ->
            {[repo |-> NilRepo, err |-> e] :
                e \in CheckResponse(repoURL(p, org, repository), resp)}

\* a getter of github.Repository: the zero value for a field not set
Getter(repo, field, zero) ==
    IF field \in DOMAIN repo THEN repo[field] ELSE zero

convertToRepository(repo) ==
    [Name |-> Getter(repo, "Name", ""),
     FullName |-> Getter(repo, "FullName", ""),
     URL |-> Getter(repo, "HTMLURL", ""),
     DefaultBranch |-> Getter(repo, "DefaultBranch", ""),
     IsPrivate |-> Getter(repo, "Private", FALSE),
     IsArchived |-> Getter(repo, "Archived", FALSE),
     IsFork |-> Getter(repo, "Fork", FALSE),
     IsDisabled |-> Getter(repo, "Disabled", FALSE)]

\* the results (repository, err) GetRepositoryDetails may return
GetRepositoryDetails(p, org, repository, resp) ==
    { IF r.err # NilErr
      THEN [repository |-> NilRepo, err |-> handleError(r.err)]
      ELSE [repository |-> convertToRepository(r.repo), err |-> NilErr]
      : r \in RepositoriesGet(p, org, repository, resp) }

(***************************************************************************)
(* The scorecard client.  An answer of the score endpoint is a record of   *)
(* the status code (0: the transport failed), the raw body of an error     *)
(* answer and, for 200, whether the body decodes and the decoded envelope. *)
(***************************************************************************)
DefaultAPIEndpoint == "https://api.securityscorecards.dev"

NilData == [nil |-> TRUE]

\* time.Parse(time.RFC3339, _): the dates of the model that it accepts
rfc3339Dates == ("2025-01-06T00:00:00Z" :> 1736121600)

parseTime(date) ==
    IF date \in DOMAIN rfc3339Dates
    THEN [time |-> rfc3339Dates[date], err |-> NilErr]
    ELSE [time |-> ZeroTime,
          err |-> Errorf("parsing time \"" \o date \o "\"")]

\* variant: a score of 5 still fails
checkStatusOf_fiveFails(score) ==
    IF score >= 0 /\ score <= 5 THEN "Fail"
    ELSE IF score > 5 THEN "Pass"
    ELSE "Unknown"

checkStatusOf(score) ==
    IF score >= 0 /\ score < 5 THEN "Fail"
    ELSE IF score >= 5 THEN "Pass"
    ELSE "Unknown"

RECURSIVE convertChecks(_)
convertChecks(checks) ==
    IF checks = <<>> THEN <<>>
    ELSE <<[Name |-> Head(checks).name, Score |-> Head(checks).score,
            Status |-> checkStatusOf(Head(checks).score),
            Reason |-> Head(checks).reason]>>
         \o convertChecks(Tail(checks))

\* variant: a date that does not parse leaves the zero time
GetScorecardData_zeroTime(vcsPath, token, resp) ==
    LET url == DefaultAPIEndpoint \o "/projects/" \o vcsPath
        timestamp == IF parseTime(resp.envelope.date).err # NilErr THEN ZeroTime
                     ELSE parseTime(resp.envelope.date).time
    IN  CASE resp.status = 0 ->
                [data |-> NilData,
                 err |-> Wrapf("failed to fetch scorecard data: ",
                               Errorf("Get \"" \o url \o "\": "
                                      \o resp.body))]
          [] resp.status = 404 ->
                [data |-> NilData,
                 err |-> Errorf("scorecard data not found for " \o vcsPath)]
          [] resp.status # 200 ->
                [data |-> NilData,
                 err |-> Errorf("API returned status "
                                \o ToString(resp.status) \o ": "
                                \o resp.body)]
          [] ~resp.decodes ->
                [data |-> NilData,
                 err |-> Wrapf("failed to decode response: ",
                               Errorf("unexpected EOF"))]
          [] OTHER ->
                [data |-> [Score |-> resp.envelope.score,
                           Repository |-> resp.envelope.repo.name,
                           Commit |-> resp.envelope.repo.commit,
                           Timestamp |-> timestamp,
                           Checks |-> convertChecks(resp.envelope.checks)],
                 err |-> NilErr]

GetScorecardData(vcsPath, token, resp) ==
    LET url == DefaultAPIEndpoint \o "/projects/" \o vcsPath
        timestamp == IF parseTime(resp.envelope.date).err # NilErr THEN now
                     ELSE parseTime(resp.envelope.date).time
    IN  CASE resp.status = 0 ->
                [data |-> NilData,
                 err |-> Wrapf("failed to fetch scorecard data: ",
                               Errorf("Get \"" \o url \o "\": "
                                      \o resp.body))]
          [] resp.status = 404 ->
                [data |-> NilData,
                 err |-> Errorf("scorecard data not found for " \o vcsPath)]
          [] resp.status # 200 ->
                [data |-> NilData,
                 err |-> Errorf("API returned status "
                                \o ToString(resp.status) \o ": "
                                \o resp.body)]
          [] ~resp.decodes ->
                [data |-> NilData,
                 err |-> Wrapf("failed to decode response: ",
                               Errorf("unexpected EOF"))]
          [] OTHER ->
                [data |-> [Score |-> resp.envelope.score,
                           Repository |-> resp.envelope.repo.name,
                           Commit |-> resp.envelope.repo.commit,
                           Timestamp |-> timestamp,
                           Checks |-> convertChecks(resp.envelope.checks)],
                 err |-> NilErr]

(***************************************************************************)
(* The metrics collector.  A gauge vector is a function from the label     *)
(* values of its series to the value of the series.                        *)
(***************************************************************************)
\* variant: a status that is neither Pass nor Fail counts as Fail
statusValueOf_unknownIsFail(status) ==
    CASE status = "Pass" -> 1
      [] OTHER -> 0

statusValueOf(status) ==
    CASE status = "Pass" -> 1
      [] status = "Fail" -> 0
      [] OTHER -> 0 - 1

RECURSIVE setCheckScores(_, _, _, _, _)
setCheckScores(vec, configName, org, repository, checks) ==
    IF checks = <<>> THEN vec
    ELSE setCheckScores(
             Put(vec, <<configName, org, repository, Head(checks).Name>>,
                 Head(checks).Score),
             configName, org, repository, Tail(checks))

RECURSIVE setCheckStatuses(_, _, _, _, _)
setCheckStatuses(vec, configName, org, repository, checks) ==
    IF checks = <<>> THEN vec
    ELSE setCheckStatuses(
             Put(vec, <<configName, org, repository, Head(checks).Name>>,
                 statusValueOf(Head(checks).Status)),
             configName, org, repository, Tail(checks))

\* variant: an overall score already there is kept
UpdateMetrics_keepFirst(configName, org, repository, data) ==
    /\ overallScore' =
           IF <<configName, org, repository>> \in DOMAIN overallScore
           THEN overallScore
           ELSE Put(overallScore, <<configName, org, repository>>,
                    data.Score)
    /\ checkScore' =
           setCheckScores(checkScore, configName, org, repository,
                          data.Checks)
    /\ checkStatus' =
           setCheckStatuses(checkStatus, configName, org, repository,
                            data.Checks)
    /\ lastUpdate' =
           Put(lastUpdate, <<configName, org, repository>>, data.Timestamp)
    /\ registeredMetrics' =
           registeredMetrics
           \cup {configName \o "/" \o org \o "/" \o repository}

UpdateMetrics(configName, org, repository, data) ==
    /\ overallScore' =
           Put(overallScore, <<configName, org, repository>>, data.Score)
    /\ checkScore' =
           setCheckScores(checkScore, configName, org, repository,
                          data.Checks)
    /\ checkStatus' =
           setCheckStatuses(checkStatus, configName, org, repository,
                            data.Checks)
    /\ lastUpdate' =
           Put(lastUpdate, <<configName, org, repository>>, data.Timestamp)
    /\ registeredMetrics' =
           registeredMetrics
           \cup {configName \o "/" \o org \o "/" \o repository}

RemoveMetricsForConfig(configName) ==
    /\ registeredMetrics' = {}
    /\ UNCHANGED <<overallScore, checkScore, checkStatus, lastUpdate>>

(***************************************************************************)
(* The environment of the reconciler: the monitored configurations, what   *)
(* the API server answers for a descriptor and for a secret, what the      *)
(* listing endpoint and the score endpoint answer.                         *)
(***************************************************************************)
OrganizationKey == "organization"
ProviderTypeKey == "providerType"
TokenSecretKey == "tokenSecret"
TokenSecretKeyName == "tokenSecretKey"
BaseURLKey == "baseURL"

Configs == {"default/a", "default/b"}

Org == (OrganizationKey :> "acme")

Descriptors ==
    { EmptyMap,
      (OrganizationKey :> ""),
      (TokenSecretKey :> "gh-token"),
      Org,
      Org @@ (TokenSecretKey :> "gh-token"),
      Org @@ (ProviderTypeKey :> "github") @@ (TokenSecretKey :> "gh-token")
          @@ (TokenSecretKeyName :> "")
          @@ (BaseURLKey :> "https://ghe.example/api/v3"),
      Org @@ (ProviderTypeKey :> "") @@ (TokenSecretKey :> "")
          @@ (BaseURLKey :> "http://[::1"),
      Org @@ (ProviderTypeKey :> "gitlab") @@ (TokenSecretKey :> "gh-token")
          @@ (TokenSecretKeyName :> "pat"),
      Org @@ (ProviderTypeKey :> "svn") }

NoSecret == [Data |-> EmptyMap, err |-> NilErr]

StatusError(reason, msg) ==
    [kind |-> "StatusError", reason |-> reason, msg |-> msg]

\* client.IgnoreNotFound
IgnoreNotFound(err) ==
    IF err.kind = "StatusError" /\ err.reason = "NotFound" THEN NilErr
    ELSE err

\* r.Get of the descriptor
GetConfigMapResults ==
    { [Data |-> EmptyMap,
       err |-> StatusError("NotFound", "configmaps not found")],
      [Data |-> EmptyMap,
       err |-> StatusError("Timeout", "the server was unable to respond")] }
    \cup { [Data |-> d, err |-> NilErr] : d \in Descriptors }

\* r.Get of the secret
GetSecretResults ==
    { [Data |-> EmptyMap,
       err |-> StatusError("NotFound", "secrets \"gh-token\" not found")],
      [Data |-> EmptyMap, err |-> NilErr],
      [Data |-> ("token" :> "ghp_1"), err |-> NilErr],
      [Data |-> ("pat" :> "ghp_2"), err |-> NilErr] }

Repo(name, private, archived, disabled, fork) ==
    [Name |-> name, Private |-> private, Archived |-> archived,
     Disabled |-> disabled, Fork |-> fork]

Widgets == Repo("widgets", FALSE, FALSE, FALSE, FALSE)
Gadgets == Repo("gadgets", FALSE, FALSE, FALSE, FALSE)

PageWidgets == <<Widgets>>

PageMixed ==
    <<Repo("vault", TRUE, FALSE, FALSE, FALSE),
      Repo("old", FALSE, TRUE, FALSE, FALSE),
      Gadgets,
      Repo("off", FALSE, FALSE, TRUE, FALSE),
      Repo("copy", FALSE, FALSE, FALSE, TRUE),
      NilRepo>>

ListAnswer(status, limit, remaining, reset, retryAfter, doc, message) ==
    [status |-> status, limit |-> limit, remaining |-> remaining,
     reset |-> reset, retryAfter |-> retryAfter, documentationURL |-> doc,
     message |-> message, items |-> <<>>, nextPage |-> 0]

SecondaryDoc ==
    "https://docs.github.com/rest/overview/rate-limits#secondary-rate-limits"

PageAnswer(items, nextPage) ==
    [ListAnswer(200, "60", "59", "", "", "", "")
        EXCEPT !.items = items, !.nextPage = nextPage]

\* the answers that end a listing: a last page or a failure
LastAnswers ==
    { PageAnswer(<<>>, 0), PageAnswer(PageWidgets, 0),
      PageAnswer(PageMixed, 0),
      ListAnswer(429, "", "", "", "120", "", "Too Many Requests"),
      ListAnswer(429, "60", "0", ToString(Now0 + 500), "", "",
                 "API rate limit exceeded"),
      ListAnswer(403, "60", "0", ToString(Now0 + 500), "", "",
                 "API rate limit exceeded"),
      ListAnswer(403, "60", "0", ToString(Now0 - 500), "", "",
                 "API rate limit exceeded"),
      ListAnswer(403, "", "", "", "120", SecondaryDoc,
                 "You have exceeded a secondary rate limit"),
      ListAnswer(403, "", "", "", "", SecondaryDoc,
                 "You have exceeded a secondary rate limit"),
      ListAnswer(403, "", "", "", "", "", "Resource not accessible"),
      ListAnswer(404, "", "", "", "", "", "Not Found"),
      ListAnswer(500, "", "", "", "", "", "Internal Server Error"),
      ListAnswer(500, "", "", "", "", "", "Quota exceeded for backend"),
      ListAnswer(0, "", "", "", "", "", "context deadline exceeded") }

\* what the listing endpoint answers to the requests of one listing, in turn
Listings ==
    { <<a>> : a \in LastAnswers }
    \cup { <<PageAnswer(first, 2), a>> :
              first \in {PageWidgets, PageMixed}, a \in LastAnswers }

Envelope(score, date, checks) ==
    [score |-> score, date |-> date,
     repo |-> [name |-> "github.com/acme/repo", commit |-> "abc123"],
     checks |-> checks]

NoEnvelope == Envelope(0, "", <<>>)

APICheck(name, score) == [name |-> name, score |-> score, reason |-> "r"]

ScoreAnswers ==
    { [status |-> 200, body |-> "", decodes |-> TRUE,
       envelope |-> Envelope(7, "2025-01-06T00:00:00Z",
                             <<APICheck("CI-Tests", 7),
                               APICheck("Fuzzing", 3)>>)],
      [status |-> 200, body |-> "<html>", decodes |-> FALSE,
       envelope |-> NoEnvelope],
      [status |-> 404, body |-> "not found", decodes |-> FALSE,
       envelope |-> NoEnvelope],
      [status |-> 500, body |-> "internal error", decodes |-> FALSE,
       envelope |-> NoEnvelope],
      [status |-> 502, decodes |-> FALSE, envelope |-> NoEnvelope,
       body |-> "upstream said: scorecard data not found for project"],
      [status |-> 0, body |-> "context canceled", decodes |-> FALSE,
       envelope |-> NoEnvelope] }

NoListAnswer == ListAnswer(0 - 1, "", "", "", "", "", "")

NoScoreAnswer ==
    [status |-> 0 - 1, body |-> "", decodes |-> FALSE,
     envelope |-> NoEnvelope]

(***************************************************************************)
(* The reconciler.                                                         *)
(***************************************************************************)
NoCalls ==
    [GetConfigMap |-> 0, RemoveMetricsForConfig |-> 0, GetSecret |-> 0,
     CreateProvider |-> 0, ListByOrg |-> 0, GetScorecardData |-> 0,
     UpdateMetrics |-> 0]

\* the call log of the pass after one more call of op
Called(log, op) == [log EXCEPT ![op] = @ + 1]

\* an entry of the trace: the operation called and what it was called for
Event(op, what) == [op |-> op, what |-> what]

\* the workers that may call the collector at the same time
Workers == {"w1", "w2"}

\* a worker that is not in UpdateMetrics
NotUpserting == [pc |-> "idle", call |-> [op |-> "none"], i |-> 1]

ReturnStatements ==
    {"retConfigGone", "retNoOrganization", "retSecretError", "retNoTokenKey",
     "retProviderError", "retRateLimited", "retListError", "retFetchError",
     "retCompleted"}

\* ctrl.Result{RequeueAfter: d} and the error returned with it
Return(d, err) == [RequeueAfter |-> d, err |-> err]

\* utils.JitterRequeue: the delays it may choose
JitterRequeue(interval, maxJitterPercent) ==
    {interval + j : j \in 0..((interval * maxJitterPercent) \div 100)}

\* variant: only the absent key is tested, not the empty value
missingOrganization_absentOnly(data) == OrganizationKey \notin DOMAIN data

\* organization, ok := configMap.Data[OrganizationKey]; !ok || organization == ""
missingOrganization(data) ==
    \/ OrganizationKey \notin DOMAIN data
    \/ data[OrganizationKey] = ""

\* variant: the key is taken as the descriptor gives it
tokenKeyName_noDefault(data) == Lookup(data, TokenSecretKeyName)

\* variant: the default key whatever the descriptor says
tokenKeyName_fixed(data) == "token"

\* the key of the secret that holds the token
tokenKeyName(data) ==
    IF Lookup(data, TokenSecretKeyName) = "" THEN "token"
    ELSE Lookup(data, TokenSecretKeyName)

\* variant: the rate-limited pass schedules no delay
ReconcileListError_noDelay(err) ==
    IF IsRateLimitError(err)
    THEN [ret |-> Return(0, NilErr), pc |-> "retRateLimited"]
    ELSE [ret |-> Return(0, err), pc |-> "retListError"]

\* variant: the error of a failed listing is not returned
ReconcileListError_swallow(err) ==
    IF IsRateLimitError(err)
    THEN [ret |-> Return(GetRetryAfter(err), NilErr), pc |-> "retRateLimited"]
    ELSE [ret |-> Return(0, NilErr), pc |-> "retListError"]

\* what Reconcile returns when GetRepositories fails with err
ReconcileListError(err) ==
    IF IsRateLimitError(err)
    THEN [ret |-> Return(GetRetryAfter(err), NilErr), pc |-> "retRateLimited"]
    ELSE [ret |-> Return(0, err), pc |-> "retListError"]

\* variant: the loop takes the repositories from the last to the first
rangeElement_backwards(seq, i) == seq[Len(seq) - i + 1]

\* for _, repo := range repos: the repository of the i-th iteration
rangeElement(seq, i) == seq[i]

\* variant: every error is taken for "not found"
isNotFoundError_always(err) == err # NilErr

\* variant: no error is taken for "not found"
isNotFoundError_never(err) == FALSE

isNotFoundError(err) ==
    IF err = NilErr THEN FALSE
    ELSE Contains(ErrorString(err), "scorecard data not found for")

ScorecardLabelKey == "openssf-scorecard.giantswarm.io/enabled"

\* object.GetLabels() of an object without labels
NilLabels == [nil |-> TRUE]

\* variant: the label has to say "true"
labelPredicate_trueOnly(object) ==
    IF object.labels = NilLabels THEN FALSE
    ELSE /\ ScorecardLabelKey \in DOMAIN object.labels
         /\ object.labels[ScorecardLabelKey] = "true"

\* the filter SetupWithManager gives to predicate.NewPredicateFuncs
labelPredicate(object) ==
    IF object.labels = NilLabels THEN FALSE
    ELSE ScorecardLabelKey \in DOMAIN object.labels

\* predicate.Funcs made by NewPredicateFuncs, as WithEventFilter applies
\* it: the filter decides on the object of a Create, Delete or Generic
\* event and on the new object of an Update event
eventPasses(event) ==
    IF event.type = "Update" THEN labelPredicate(event.objectNew)
    ELSE labelPredicate(event.object)

\* variant: the lock is taken whoever holds it
tryLock_always(holder) == TRUE

\* c.mu.Lock() goes on when no worker holds the lock
tryLock(holder) == holder = ""

\* no pass has run and the collector is as NewCollector leaves it
Idle ==
    /\ now = Now0
    /\ passes = 0
    /\ pc = "idle"
    /\ req = ""
    /\ configMap = EmptyMap
    /\ organization = ""
    /\ providerType = ""
    /\ baseURL = ""
    /\ secret = NoSecret
    /\ vcsToken = ""
    /\ provider = NilProvider
    /\ listResp = NoListAnswer
    /\ listErr = NilErr
    /\ repos = <<>>
    /\ idx = 1
    /\ fetchResp = NoScoreAnswer
    /\ fetchErr = NilErr
    /\ ret = Return(0, NilErr)
    /\ calls = NoCalls
    /\ trace = <<>>
    /\ cancelled = FALSE
    /\ mu = ""
    /\ upserting = [w \in Workers |-> NotUpserting]
    /\ overallScore = EmptyMap
    /\ checkScore = EmptyMap
    /\ checkStatus = EmptyMap
    /\ lastUpdate = EmptyMap
    /\ registeredMetrics = {}

NoCall == [op |-> "none"]

Init ==
    /\ Idle
    /\ arg = NoCall
    /\ out = NoCall

\* the clock advances
Tick ==
    /\ now < Now0 + MaxTicks
    /\ now' = now + 1
    /\ UNCHANGED <<passes, passVars, cancelled, storeVars, workerVars,
                   callVars>>

\* Reconcile is called for c: the descriptor is read and its fields taken
LoadConfigMap(c, res) ==
    /\ pc \in {"idle"} \cup ReturnStatements
    /\ passes' = passes + 1
    /\ req' = c
    /\ secret' = NoSecret
    /\ vcsToken' = ""
    /\ provider' = NilProvider
    /\ listResp' = NoListAnswer
    /\ listErr' = NilErr
    /\ repos' = <<>>
    /\ idx' = 1
    /\ fetchResp' = NoScoreAnswer
    /\ fetchErr' = NilErr
    /\ IF res.err # NilErr
       THEN /\ RemoveMetricsForConfig(c)
            /\ configMap' = EmptyMap
            /\ organization' = ""
            /\ providerType' = ""
            /\ baseURL' = ""
            /\ ret' = Return(0, IgnoreNotFound(res.err))
            /\ pc' = "retConfigGone"
            /\ calls' = Called(Called(NoCalls, "GetConfigMap"),
                               "RemoveMetricsForConfig")
            /\ trace' = <<Event("GetConfigMap", c),
                          Event("RemoveMetricsForConfig", c)>>
       ELSE /\ UNCHANGED storeVars
            /\ configMap' = res.Data
            /\ organization' = Lookup(res.Data, OrganizationKey)
            /\ calls' = Called(NoCalls, "GetConfigMap")
            /\ trace' = <<Event("GetConfigMap", c)>>
            /\ IF missingOrganization(res.Data)
               THEN /\ providerType' = ""
                    /\ baseURL' = ""
                    /\ ret' = Return(0, NilErr)
                    /\ pc' = "retNoOrganization"
               ELSE /\ providerType' =
                           IF Lookup(res.Data, ProviderTypeKey) = ""
                           THEN ProviderTypeGitHub
                           ELSE Lookup(res.Data, ProviderTypeKey)
                    /\ baseURL' = Lookup(res.Data, BaseURLKey)
                    /\ ret' = Return(0, NilErr)
                    /\ pc' = "credential"
    /\ UNCHANGED <<now, cancelled, workerVars, callVars>>

\* the token is taken from the secret the descriptor names, if it names one
ResolveCredential(res) ==
    /\ pc = "credential"
    /\ IF TokenSecretKey \in DOMAIN configMap /\ configMap[TokenSecretKey] # ""
       THEN LET key == tokenKeyName(configMap)
            IN  /\ calls' = Called(calls, "GetSecret")
                /\ trace' = Append(trace, Event("GetSecret",
                                                configMap[TokenSecretKey]))
                /\ secret' = res
                /\ IF res.err # NilErr
                   THEN /\ ret' = Return(0, res.err)
                        /\ pc' = "retSecretError"
                        /\ UNCHANGED vcsToken
                   ELSE IF key \notin DOMAIN res.Data
                   THEN /\ ret' = Return(0, NilErr)
                        /\ pc' = "retNoTokenKey"
                        /\ UNCHANGED vcsToken
                   ELSE /\ vcsToken' = res.Data[key]
                        /\ pc' = "provider"
                        /\ UNCHANGED ret
       ELSE /\ pc' = "provider"
            /\ UNCHANGED <<secret, vcsToken, ret, calls, trace>>
    /\ UNCHANGED <<callVars, workerVars, cancelled, now, passes, req,
                   configMap, organization, providerType,
                   baseURL, provider, listResp, listErr,
                   repos, idx, fetchResp, fetchErr, storeVars>>

\* the provider is created by the factory
ResolveProvider ==
    /\ pc = "provider"
    /\ LET r == CreateProvider([Type |-> providerType, Token |-> vcsToken,
                                BaseURL |-> baseURL,
                                Organization |-> organization])
       IN  /\ calls' = Called(calls, "CreateProvider")
           /\ trace' = Append(trace, Event("CreateProvider", providerType))
           /\ provider' = r.provider
           /\ IF r.err # NilErr
              THEN /\ ret' = Return(0, r.err)
                   /\ pc' = "retProviderError"
              ELSE /\ pc' = "list"
                   /\ UNCHANGED ret
    /\ UNCHANGED <<callVars, workerVars, cancelled, now, passes, req,
                   configMap, organization, providerType,
                   baseURL, secret, vcsToken, listResp, listErr,
                   repos, idx, fetchResp, fetchErr, storeVars>>

\* the repositories are listed; a failed listing ends the pass
ListRepositories(listing) ==
    /\ pc = "list"
    /\ \E r \in GetRepositories(provider, organization, listing) :
         /\ listErr' = r.err
         /\ calls' = [calls EXCEPT !.ListByOrg = @ + r.requests]
         /\ trace' = trace \o [i \in 1..r.requests |->
                                  Event("ListByOrg", r.urls[i])]
         /\ IF r.err # NilErr
            THEN /\ ret' = ReconcileListError(r.err).ret
                 /\ pc' = ReconcileListError(r.err).pc
                 /\ listResp' = r.resp
                 /\ repos' = r.repos
            ELSE /\ repos' = r.repos
                 /\ pc' = "loop"
                 /\ UNCHANGED <<listResp, ret>>
    /\ UNCHANGED <<callVars, workerVars, cancelled, now, passes, req,
                   configMap, organization, providerType,
                   baseURL, secret, vcsToken, provider, idx, fetchResp,
                   fetchErr, storeVars>>

\* one iteration of the loop over repos
ProcessRepository(answer) ==
    /\ pc = "loop"
    /\ idx <= Len(repos)
    /\ LET repo == rangeElement(repos, idx)
           vcsPath == GetScorecardURL(provider, organization, repo)
           r == GetScorecardData(vcsPath, vcsToken, answer)
           fetched == Called(calls, "GetScorecardData")
           fetchedTrace == Append(trace, Event("GetScorecardData", vcsPath))
           updatedTrace == Append(fetchedTrace, Event("UpdateMetrics", repo))
           unavailable == [Score |-> 0 - 1, Repository |-> repo,
                           Commit |-> "", Timestamp |-> now,
                           Checks |-> <<>>]
           updated == Called(fetched, "UpdateMetrics")
       IN  /\ fetchResp' = answer
           /\ fetchErr' = r.err
           /\ IF r.err # NilErr
              THEN IF isNotFoundError(r.err)
                   THEN /\ UpdateMetrics(req, organization, repo, unavailable)
                        /\ calls' = updated
                        /\ trace' = updatedTrace
                        /\ idx' = idx + 1
                        /\ UNCHANGED <<pc, ret>>
                   ELSE /\ ret' = Return(0, r.err)
                        /\ pc' = "retFetchError"
                        /\ calls' = fetched
                        /\ trace' = fetchedTrace
                        /\ UNCHANGED <<idx, storeVars>>
              ELSE /\ UpdateMetrics(req, organization, repo, r.data)
                   /\ calls' = updated
                   /\ trace' = updatedTrace
                   /\ idx' = idx + 1
                   /\ UNCHANGED <<pc, ret>>
    /\ UNCHANGED <<callVars, workerVars, cancelled, now, passes, req,
                   configMap, organization, providerType,
                   baseURL, secret, vcsToken, provider, listResp, listErr,
                   repos>>

\* the loop is over: the next pass is scheduled
ScheduleNext(delay) ==
    /\ pc = "loop"
    /\ idx > Len(repos)
    /\ delay \in JitterRequeue(RequeueInterval, MaxJitterPercent)
    /\ ret' = Return(delay, NilErr)
    /\ pc' = "retCompleted"
    /\ UNCHANGED <<callVars, workerVars, cancelled, now, passes, req,
                   configMap, organization, providerType,
                   baseURL, secret, vcsToken, provider, listResp, listErr,
                   repos, idx, fetchResp, fetchErr, calls, trace,
                   storeVars>>

Next ==
    \/ Tick
    \/ /\ passes < MaxPasses
       /\ \E c \in Configs, res \in GetConfigMapResults :
              LoadConfigMap(c, res)
    \/ \E res \in GetSecretResults : ResolveCredential(res)
    \/ ResolveProvider
    \/ \E listing \in Listings : ListRepositories(listing)
    \/ \E answer \in ScoreAnswers : ProcessRepository(answer)
    \/ \E delay \in RequeueInterval..(2 * RequeueInterval) :
           ScheduleNext(delay)

Spec == Init /\ [][Next]_vars

(***************************************************************************)
(* The reconciler when the context of the pass may be cancelled.  A        *)
(* request sent with a cancelled context fails: the listing returns the    *)
(* error of the context, the score client the error of its transport.  A   *)
(* read of a secret goes through the client of the manager, which may      *)
(* answer from its cache or fail with the error of the context.  The       *)
(* manager starts no pass once its context is cancelled.                   *)
(***************************************************************************)
CancelledListing ==
    <<ListAnswer(0, "", "", "", "", "", "context canceled")>>

CancelledScoreAnswer ==
    [status |-> 0, body |-> "context canceled", decodes |-> FALSE,
     envelope |-> NoEnvelope]

CancelledGet ==
    [Data |-> EmptyMap, err |-> Errorf("context canceled")]

\* ctx is cancelled while the pass runs
Cancel ==
    /\ pc \notin {"idle"} \cup ReturnStatements
    /\ ~cancelled
    /\ cancelled' = TRUE
    /\ UNCHANGED <<now, passes, passVars, storeVars, workerVars, callVars>>

NextCancel ==
    \/ Tick
    \/ Cancel
    \/ /\ passes < MaxPasses
       /\ ~cancelled
       /\ \E c \in Configs, res \in GetConfigMapResults :
              LoadConfigMap(c, res)
    \/ \E res \in IF cancelled THEN GetSecretResults \cup {CancelledGet}
                   ELSE GetSecretResults : ResolveCredential(res)
    \/ ResolveProvider
    \/ \E listing \in IF cancelled THEN {CancelledListing} ELSE Listings :
           ListRepositories(listing)
    \/ \E answer \in IF cancelled THEN {CancelledScoreAnswer}
                      ELSE ScoreAnswers : ProcessRepository(answer)
    \/ \E delay \in RequeueInterval..(2 * RequeueInterval) :
           ScheduleNext(delay)

SpecCancel == Init /\ [][NextCancel]_vars

(***************************************************************************)
(* The reconciler called again for one descriptor, as the requeue delay    *)
(* of a completed pass and the events of the watch make the manager do:    *)
(* up to MaxRelists passes for "default/a", whose organization may list    *)
(* other repositories at each pass.                                        *)
(***************************************************************************)
RelistLoads ==
    { [Data |-> Org, err |-> NilErr],
      [Data |-> EmptyMap,
       err |-> StatusError("Timeout", "the server was unable to respond")] }

RelistListings ==
    { <<PageAnswer(<<Widgets, Gadgets>>, 0)>>,
      <<PageAnswer(<<Widgets, Repo("gadgets", FALSE, TRUE, FALSE, FALSE)>>,
                   0)>>,
      <<PageAnswer(<<>>, 0)>> }

NextRelist ==
    \/ Tick
    \/ /\ passes < MaxRelists
       /\ \E res \in RelistLoads : LoadConfigMap("default/a", res)
    \/ ResolveCredential(NoSecret)
    \/ ResolveProvider
    \/ \E listing \in RelistListings : ListRepositories(listing)
    \/ \E answer \in ScoreAnswers : ProcessRepository(answer)
    \/ ScheduleNext(RequeueInterval)

SpecRelist == Init /\ [][NextRelist]_vars

(***************************************************************************)
(* Properties of the reconciliation pass.                                  *)
(***************************************************************************)
\* the series key of the repository at position i of the listing
SeriesKey(i) == <<req, organization, repos[i]>>

\* the step is one iteration of the loop over repos
FetchStep == calls'.GetScorecardData = calls.GetScorecardData + 1

\* C1: when the listing fails with an error for which IsRateLimitError is
\* true, the pass ends without an error, the next pass is scheduled after
\* exactly GetRetryAfter(err) and nothing is fetched or upserted; a listing
\* answered with HTTP 429 and "Retry-After: 120" ends the pass without an
\* error and with a delay of 120 seconds.
C1_RateLimitedListing ==
    [][(pc = "list" /\ IsRateLimitError(listErr'))
       => /\ pc' = "retRateLimited"
          /\ ret' = Return(GetRetryAfter(listErr'), NilErr)
          /\ calls'.GetScorecardData = 0
          /\ calls'.UpdateMetrics = 0
          /\ UNCHANGED storeVars
          /\ (listResp'.status = 429 /\ listResp'.retryAfter = "120")
                => ret' = Return(120, NilErr)]_vars

\* C2 as stated: when the listing fails and the failure is no rate-limit
\* signal of the backend (the answer was not HTTP 403 or 429 and the client
\* library raised no typed rate-limit error), the error is returned, no
\* delay is scheduled and nothing is upserted.
C2_NonBackendSignalSurfaced ==
    (/\ listErr # NilErr
     /\ listResp.status \notin {403, 429}
     /\ AsRateLimitError(listErr) = NilErr)
    => /\ pc = "retListError"
       /\ ret = Return(0, listErr)
       /\ calls.UpdateMetrics = 0

\* C2 amended: when the listing fails with an error for which
\* IsRateLimitError is false, the error is returned, no delay is scheduled
\* and nothing is fetched or upserted.
C2_UnclassifiedErrorSurfaced ==
    (listErr # NilErr /\ ~IsRateLimitError(listErr))
    => /\ pc = "retListError"
       /\ ret = Return(0, listErr)
       /\ calls.GetScorecardData = 0
       /\ calls.UpdateMetrics = 0

C2_Witness ==
    /\ pc = "retListError"
    /\ listResp.status = 500
    /\ listResp.message = "Internal Server Error"
    /\ ret = Return(0, listErr)
    /\ calls.ListByOrg = 2

\* C3: when the fetch of a repository is answered with HTTP 404, the pass
\* upserts for that repository the overall score -1 with no check, stamped
\* with the current time, and goes on with the next repository of the
\* listing instead of failing.
C3_NotFoundSentinel ==
    [][(FetchStep /\ fetchResp'.status = 404)
       => /\ overallScore' = Put(overallScore, SeriesKey(idx), 0 - 1)
          /\ lastUpdate' = Put(lastUpdate, SeriesKey(idx), now)
          /\ checkScore' = checkScore
          /\ checkStatus' = checkStatus
          /\ calls'.UpdateMetrics = calls.UpdateMetrics + 1
          /\ idx' = idx + 1
          /\ pc' = "loop"
          /\ ret' = ret]_vars

C3_Witness ==
    /\ pc = "loop"
    /\ Len(repos) = 2
    /\ repos[1] # repos[2]
    /\ idx = 3
    /\ overallScore[SeriesKey(1)] = 0 - 1
    /\ fetchErr = NilErr
    /\ overallScore[SeriesKey(2)] = 7

\* C4: when the fetch of the repository at position k fails with anything
\* other than HTTP 404, the pass returns that error, no repository after k
\* is fetched or upserted, repository k is not upserted and the series of
\* the positions before k stay as this pass wrote them.
C4_HardFetchFailureAborts ==
    (fetchErr # NilErr /\ fetchResp.status # 404)
    => /\ pc = "retFetchError"
       /\ ret = Return(0, fetchErr)
       /\ calls.GetScorecardData = idx
       /\ calls.UpdateMetrics = idx - 1

\* the key of the secret the descriptor asks for
WantedKey ==
    IF TokenSecretKeyName \in DOMAIN configMap
       /\ configMap[TokenSecretKeyName] # ""
    THEN configMap[TokenSecretKeyName]
    ELSE "token"

\* the pass handed back neither an error nor a delay
Skipped ==
    /\ ret = Return(0, NilErr)
    /\ pc \in {"retConfigGone", "retNoOrganization", "retNoTokenKey"}

\* the pass completed and scheduled the jittered delay
Completed ==
    /\ pc = "retCompleted"
    /\ ret.err = NilErr
    /\ ret.RequeueAfter \in JitterRequeue(RequeueInterval, MaxJitterPercent)

\* the pass ended on a rate limit and scheduled the retry delay
RateLimited ==
    /\ pc = "retRateLimited"
    /\ ret.err = NilErr
    /\ ret.RequeueAfter > 0

\* the pass handed back an error and no delay
Aborted ==
    /\ pc \in {"retConfigGone", "retSecretError", "retProviderError",
               "retListError", "retFetchError"}
    /\ ret.err # NilErr
    /\ ret.RequeueAfter = 0

\* C5 as stated: every pass ends completed with a jittered delay, or
\* completed with a rate-limit retry delay, or aborted with an error; none
\* ends with neither an error nor a delay.
C5_ThreeTerminalStates ==
    pc \in ReturnStatements
    => /\ Completed \/ RateLimited \/ Aborted
       /\ ~(ret.err = NilErr /\ ret.RequeueAfter = 0)

\* C5 amended: every pass ends in exactly one of four states: completed
\* with a jittered delay, completed with a rate-limit retry delay, aborted
\* with an error, or skipped with neither an error nor a delay; it is
\* skipped exactly when the descriptor is gone, when it has no organization
\* or when the secret lacks the token key.
C5_FourTerminalStates ==
    pc \in ReturnStatements
    => /\ Completed \/ RateLimited \/ Aborted \/ Skipped
       /\ ~(Completed /\ RateLimited) /\ ~(Completed /\ Aborted)
       /\ ~(Completed /\ Skipped) /\ ~(RateLimited /\ Aborted)
       /\ ~(RateLimited /\ Skipped) /\ ~(Aborted /\ Skipped)
       /\ (ret.err = NilErr /\ ret.RequeueAfter = 0)
             <=> \/ calls.RemoveMetricsForConfig = 1 /\ ret.err = NilErr
                 \/ /\ calls.RemoveMetricsForConfig = 0
                    /\ Lookup(configMap, OrganizationKey) = ""
                 \/ /\ calls.GetSecret = 1
                    /\ secret.err = NilErr
                    /\ WantedKey \notin DOMAIN secret.Data

C5_Witness ==
    /\ pc = "retNoTokenKey"
    /\ ret = Return(0, NilErr)
    /\ secret.err = NilErr
    /\ calls.GetSecret = 1

\* C6: the jittered delay is scheduled if and only if the listing succeeded
\* and the fetch of every listed repository ended in success or in HTTP 404
\* (a listing of no repository included); the loop goes past a repository
\* only after such a fetch.
C6_JitterIffNoHardAbort ==
    /\ (pc \in {"loop", "retCompleted"} /\ idx > 1)
          => (fetchErr = NilErr \/ fetchResp.status = 404)
    /\ pc \in ReturnStatements
          => ((ret.err = NilErr
               /\ ret.RequeueAfter
                     \in JitterRequeue(RequeueInterval, MaxJitterPercent))
              <=> /\ calls.ListByOrg >= 1
                  /\ listErr = NilErr
                  /\ calls.GetScorecardData = Len(repos)
                  /\ (fetchErr = NilErr \/ fetchResp.status = 404))

\* C7: when the descriptor has no organization or an empty one, the pass is
\* skipped: no secret is read, no provider made, nothing listed, fetched or
\* upserted, no error is returned and no delay is scheduled.
C7_MissingOrganizationSkips ==
    (/\ calls.GetConfigMap = 1
     /\ calls.RemoveMetricsForConfig = 0
     /\ (OrganizationKey \notin DOMAIN configMap
         \/ configMap[OrganizationKey] = ""))
    => /\ pc = "retNoOrganization"
       /\ ret = Return(0, NilErr)
       /\ calls = Called(NoCalls, "GetConfigMap")
       /\ secret = NoSecret
       /\ provider = NilProvider

C7_Witness ==
    /\ pc = "retNoOrganization"
    /\ OrganizationKey \in DOMAIN configMap
    /\ configMap[OrganizationKey] = ""
    /\ ret = Return(0, NilErr)

\* C8 as stated: when the named secret cannot be resolved to a token,
\* because it cannot be read or because the key is absent from it, nothing
\* is listed or upserted and neither a delay nor an error is returned.
C8_UnresolvedCredentialSkips ==
    (calls.GetSecret = 1
     /\ (secret.err # NilErr \/ WantedKey \notin DOMAIN secret.Data))
    => /\ ret = Return(0, NilErr)
       /\ calls.ListByOrg = 0
       /\ calls.UpdateMetrics = 0

\* C8 amended: when the key is absent from the named secret the pass is
\* skipped, with neither a delay nor an error; when the secret cannot be
\* read the pass returns that error with no delay; in both cases no
\* provider is made and nothing is listed, fetched or upserted.  A secret
\* that holds the key gives the pass its token.
C8_CredentialOutcomes ==
    calls.GetSecret = 1
    => IF secret.err # NilErr
       THEN /\ pc = "retSecretError"
            /\ ret = Return(0, secret.err)
            /\ calls = Called(Called(NoCalls, "GetConfigMap"), "GetSecret")
       ELSE IF WantedKey \notin DOMAIN secret.Data
       THEN /\ pc = "retNoTokenKey"
            /\ ret = Return(0, NilErr)
            /\ calls = Called(Called(NoCalls, "GetConfigMap"), "GetSecret")
       ELSE /\ pc \notin {"retSecretError", "retNoTokenKey"}
            /\ vcsToken = secret.Data[WantedKey]

C8_Witness ==
    /\ pc = "retSecretError"
    /\ secret.err # NilErr
    /\ ret = Return(0, secret.err)
    /\ calls.ListByOrg = 0

\* C9: when the factory has no provider for the configuration (the provider
\* type is not registered, or the constructor rejects the base URL), the
\* pass ends before anything is listed, fetched or upserted and hands back
\* neither a delay nor an error.
C9_NoProviderNoSignal ==
    (/\ calls.CreateProvider = 1
     /\ \/ providerType # "github"
        \/ baseURL = "http://[::1")
    => /\ pc = "retProviderError"
       /\ calls.ListByOrg = 0
       /\ calls.GetScorecardData = 0
       /\ calls.UpdateMetrics = 0
       /\ ret = Return(0, NilErr)

\* C10: a fetch is handled as "not found", the pass going on past its
\* error, if and only if the score endpoint answered HTTP 404.
C10_NotFoundIffStatus404 ==
    calls.GetScorecardData >= 1
    => ((fetchErr # NilErr /\ pc # "retFetchError")
        <=> fetchResp.status = 404)

(***************************************************************************)
(* The provider called on its own: one call of GetRepositories or of       *)
(* GetRepositoryDetails on the default GitHub provider, the backend        *)
(* answering with the answers the call is given.                           *)
(***************************************************************************)
DefaultProvider ==
    NewGitHubProvider([Type |-> ProviderTypeGitHub, Token |-> "",
                       BaseURL |-> "", Organization |-> "acme"]).provider

\* n public repositories named r<first>, r<first+1>, ...; every
\* privateEvery-th of them private when privateEvery > 0
Page(first, n, privateEvery) ==
    [i \in 1..n |->
        Repo("r" \o ToString(first + i - 1),
             privateEvery > 0 /\ (first + i - 1) % privateEvery = 0,
             FALSE, FALSE, FALSE)]

FullThenShort ==
    <<PageAnswer(Page(1, PerPage, 0), 2), PageAnswer(Page(101, 40, 0), 0)>>

ExactlyFull == <<PageAnswer(Page(1, PerPage, 0), 0)>>

FullThenNothing == <<PageAnswer(Page(1, PerPage, 0), 2)>>

ShortWithNext ==
    <<PageAnswer(Page(1, 40, 0), 2), PageAnswer(Page(41, 1, 0), 0)>>

FullThenMixed ==
    <<PageAnswer(Page(1, PerPage, 7), 2), PageAnswer(PageMixed, 0)>>

SkipToPageFive ==
    <<PageAnswer(PageWidgets, 5),
      ListAnswer(0, "", "", "", "", "", "context deadline exceeded")>>

ProviderListings ==
    Listings \cup {FullThenShort, ExactlyFull, FullThenNothing,
                   ShortWithNext, FullThenMixed, SkipToPageFive}

WidgetsDetails ==
    [Name |-> "widgets", FullName |-> "acme/widgets",
     HTMLURL |-> "https://github.com/acme/widgets",
     DefaultBranch |-> "main", Private |-> FALSE, Archived |-> TRUE,
     Disabled |-> FALSE, Fork |-> FALSE]

DetailAnswers ==
    {PageAnswer(<<WidgetsDetails>>, 0), PageAnswer(<<Widgets>>, 0)}
    \cup {a \in LastAnswers : a.status # 200}

\* configurations the factory may be asked for
FactoryConfigs ==
    {[Type |-> t, Token |-> k, BaseURL |-> u, Organization |-> "acme"] :
        t \in {ProviderTypeGitHub, ProviderTypeGitLab,
               ProviderTypeBitbucket, "svn", "GitHub", ""},
        k \in {"", "ghp_1"},
        u \in {"", "https://ghe.example/api/v3",
               "https://ghe.example/api/v3/", "http://[::1"}}

\* the providers the factory makes of them
FactoryProviders ==
    {CreateProvider(c).provider : c \in FactoryConfigs} \ {NilProvider}

ProviderCalls ==
    {[op |-> "GetRepositories", listing |-> l] : l \in ProviderListings}
    \cup {[op |-> "GetRepositoryDetails", answer |-> a] :
             a \in DetailAnswers}
    \cup {[op |-> "CreateProvider", config |-> c] : c \in FactoryConfigs}
    \cup {[op |-> "GetScorecardURL", provider |-> p, organization |-> o,
           repository |-> r] :
             p \in FactoryProviders, o \in {"acme", "globex"},
             r \in {"widgets", "gadgets"}}

InitProvider ==
    /\ Idle
    /\ arg \in ProviderCalls
    /\ out = NoCall

CallGetRepositories ==
    /\ arg.op = "GetRepositories"
    /\ out = NoCall
    /\ \E r \in GetRepositories(DefaultProvider, "acme", arg.listing) :
           out' = [op |-> arg.op, repos |-> r.repos, err |-> r.err,
                   requests |-> r.requests, urls |-> r.urls,
                   resp |-> r.resp, at |-> now]
    /\ UNCHANGED <<now, passes, passVars, cancelled, storeVars, workerVars,
                   arg>>

CallGetRepositoryDetails ==
    /\ arg.op = "GetRepositoryDetails"
    /\ out = NoCall
    /\ \E r \in GetRepositoryDetails(DefaultProvider, "acme", "widgets",
                                     arg.answer) :
           out' = [op |-> arg.op, repository |-> r.repository,
                   err |-> r.err, at |-> now]
    /\ UNCHANGED <<now, passes, passVars, cancelled, storeVars, workerVars,
                   arg>>

CallCreateProvider ==
    /\ arg.op = "CreateProvider"
    /\ out = NoCall
    /\ out' = [op |-> arg.op, provider |-> CreateProvider(arg.config).provider,
               err |-> CreateProvider(arg.config).err]
    /\ UNCHANGED <<now, passes, passVars, cancelled, storeVars, workerVars,
                   arg>>

CallGetScorecardURL ==
    /\ arg.op = "GetScorecardURL"
    /\ out = NoCall
    /\ out' = [op |-> arg.op,
               result |-> GetScorecardURL(arg.provider, arg.organization,
                                          arg.repository)]
    /\ UNCHANGED <<now, passes, passVars, cancelled, storeVars, workerVars,
                   arg>>

NextProvider ==
    \/ Tick
    \/ CallGetRepositories
    \/ CallGetRepositoryDetails
    \/ CallCreateProvider
    \/ CallGetScorecardURL

SpecProvider == InitProvider /\ [][NextProvider]_vars

(***************************************************************************)
(* The error classification called on its own: one call of                 *)
(* IsRateLimitError, of GetRetryAfter or of the reconciler's handling of a *)
(* failed listing, on an error built as the tests of the package build     *)
(* theirs.  arg holds the call and the error; beside the error it notes    *)
(* how the error was built: signal is the RateLimitError put into it       *)
(* (NilErr when there is none) and mentions tells whether its message was  *)
(* written with one of the indicators in it, in any capitalisation.        *)
(***************************************************************************)
TypedSignals ==
    {WithResetTime(WithRetryAfter(
         NewRateLimitError(ProviderTypeGitHub, "rate limit"), d), t) :
        d \in {0 - 5, 0, 30, 600},
        t \in {ZeroTime, Now0 - 300, Now0, Now0 + 1, Now0 + 900}}

TypedCases ==
    {[err |-> e, signal |-> e, mentions |-> TRUE] : e \in TypedSignals}
    \cup {[err |-> Wrapf("API error: ", e), signal |-> e, mentions |-> TRUE] :
             e \in TypedSignals}
    \cup {[err |-> Wrapf("failed to list repositories: ",
                         Wrapf("API error: ", e)),
           signal |-> e, mentions |-> TRUE] : e \in TypedSignals}

\* messages written with an indicator in them
MentioningMessages ==
    {"API rate limit exceeded",
     "API returned status 429: too many requests",
     "too many requests, please try again later",
     "quota exceeded for this resource",
     "Too Many Requests",
     "GitHub Rate-Limit reached",
     "RateLimit hit",
     "QUOTA EXCEEDED",
     "HTTP 429"}

\* messages written without any
OtherMessages ==
    {"connection timeout", "invalid credentials", "some other error",
     "rate  limit", "rate_limit", "too many request", "quota exceed",
     "HTTP 42 9", ""}

PlainCases ==
    {[err |-> Errorf(m), signal |-> NilErr, mentions |-> TRUE] :
        m \in MentioningMessages}
    \cup {[err |-> Errorf(m), signal |-> NilErr, mentions |-> FALSE] :
             m \in OtherMessages}
    \cup {[err |-> Wrapf("API error: ", Errorf(m)), signal |-> NilErr,
           mentions |-> TRUE] : m \in MentioningMessages}
    \cup {[err |-> Wrapf("API error: ", Errorf(m)), signal |-> NilErr,
           mentions |-> FALSE] : m \in OtherMessages}
    \cup {[err |-> Wrapf("rate limit check: ", Errorf(m)), signal |-> NilErr,
           mentions |-> TRUE] : m \in OtherMessages}

ClassifierCases ==
    {[err |-> NilErr, signal |-> NilErr, mentions |-> FALSE]}
    \cup TypedCases \cup PlainCases

ClassifierOps == {"IsRateLimitError", "GetRetryAfter", "ReconcileListError"}

ClassifierCalls ==
    {[op |-> o, err |-> c.err, signal |-> c.signal, mentions |-> c.mentions] :
        o \in ClassifierOps, c \in ClassifierCases}

InitClassifier ==
    /\ Idle
    /\ arg \in ClassifierCalls
    /\ out = NoCall

CallIsRateLimitError ==
    /\ arg.op = "IsRateLimitError"
    /\ out = NoCall
    /\ out' = [op |-> arg.op, result |-> IsRateLimitError(arg.err),
               at |-> now]
    /\ UNCHANGED <<now, passes, passVars, cancelled, storeVars, workerVars,
                   arg>>

CallGetRetryAfter ==
    /\ arg.op = "GetRetryAfter"
    /\ out = NoCall
    /\ out' = [op |-> arg.op, result |-> GetRetryAfter(arg.err), at |-> now]
    /\ UNCHANGED <<now, passes, passVars, cancelled, storeVars, workerVars,
                   arg>>

\* Reconcile from the failed listing on; a listing that failed has an error
CallReconcileListError ==
    /\ arg.op = "ReconcileListError"
    /\ arg.err # NilErr
    /\ out = NoCall
    /\ out' = [op |-> arg.op, ret |-> ReconcileListError(arg.err).ret,
               pc |-> ReconcileListError(arg.err).pc, at |-> now]
    /\ UNCHANGED <<now, passes, passVars, cancelled, storeVars, workerVars,
                   arg>>

NextClassifier ==
    \/ Tick
    \/ CallIsRateLimitError
    \/ CallGetRetryAfter
    \/ CallReconcileListError

SpecClassifier == InitClassifier /\ [][NextClassifier]_vars

(***************************************************************************)
(* The builder of RateLimitError called on its own, as                     *)
(* TestRateLimitError_Chaining calls it: an error is made with             *)
(* NewRateLimitError and the three steps are applied to it, each once, in  *)
(* any order.  Each step writes into the error it is called on and returns *)
(* it, so the error the next step is called on is the one the step before  *)
(* returned.  arg holds the values the error is built from; out holds the  *)
(* error, the steps applied so far and the error as it was before the last *)
(* of them.                                                                *)
(***************************************************************************)
BuilderSteps == {"WithRetryAfter", "WithResetTime", "WithRateLimitInfo"}

BuilderCalls ==
    {[op |-> "chain", provider |-> p, message |-> m, duration |-> d,
      resetTime |-> t, limit |-> q[1], remaining |-> q[2]] :
        p \in {ProviderTypeGitHub, ProviderTypeGitLab},
        m \in {"rate limit exceeded", "API rate limit exceeded"},
        d \in {30, 600},
        t \in {Now0 + 600, Now0 + 900},
        q \in {<<5000, 0>>, <<60, 59>>}}

InitBuilder ==
    /\ Idle
    /\ arg \in BuilderCalls
    /\ out = [op |-> "NewRateLimitError",
              e |-> NewRateLimitError(arg.provider, arg.message),
              steps |-> <<>>,
              before |-> NewRateLimitError(arg.provider, arg.message)]

\* the steps applied so far
Applied == {out.steps[i] : i \in 1..Len(out.steps)}

CallWithRetryAfter ==
    /\ arg.op = "chain"
    /\ "WithRetryAfter" \notin Applied
    /\ out' = [op |-> "WithRetryAfter",
               e |-> WithRetryAfter(out.e, arg.duration),
               steps |-> Append(out.steps, "WithRetryAfter"),
               before |-> out.e]
    /\ UNCHANGED <<now, passes, passVars, cancelled, storeVars, workerVars,
                   arg>>

CallWithResetTime ==
    /\ arg.op = "chain"
    /\ "WithResetTime" \notin Applied
    /\ out' = [op |-> "WithResetTime",
               e |-> WithResetTime(out.e, arg.resetTime),
               steps |-> Append(out.steps, "WithResetTime"),
               before |-> out.e]
    /\ UNCHANGED <<now, passes, passVars, cancelled, storeVars, workerVars,
                   arg>>

CallWithRateLimitInfo ==
    /\ arg.op = "chain"
    /\ "WithRateLimitInfo" \notin Applied
    /\ out' = [op |-> "WithRateLimitInfo",
               e |-> WithRateLimitInfo(out.e, arg.limit, arg.remaining),
               steps |-> Append(out.steps, "WithRateLimitInfo"),
               before |-> out.e]
    /\ UNCHANGED <<now, passes, passVars, cancelled, storeVars, workerVars,
                   arg>>

NextBuilder ==
    \/ CallWithRetryAfter
    \/ CallWithResetTime
    \/ CallWithRateLimitInfo

SpecBuilder == InitBuilder /\ [][NextBuilder]_vars

(***************************************************************************)
(* The metrics collector called on its own: up to MaxUpserts calls of      *)
(* UpdateMetrics, one after the other as the collector's lock orders them. *)
(* arg holds the arguments of the last call; out holds the calls made so   *)
(* far, oldest first, and the gauge vectors and the registered keys as     *)
(* they were before the last one.  A result names each of its checks once, *)
(* as the score API does.                                                  *)
(***************************************************************************)
Check(name, score, status) ==
    [Name |-> name, Score |-> score, Status |-> status, Reason |-> ""]

Result(score, timestamp, checks) ==
    [Score |-> score, Repository |-> "github.com/acme/repo",
     Commit |-> "abc123", Timestamp |-> timestamp, Checks |-> checks]

StoreResults ==
    {Result(7, 1736121600,
            <<Check("CI-Tests", 7, "Pass"), Check("Fuzzing", 3, "Fail")>>),
     Result(4, 1736208000,
            <<Check("Fuzzing", 0 - 1, "Unknown"),
              Check("CI-Tests", 0, "Fail")>>),
     Result(9, 1736294400, <<Check("SAST", 10, "Pass")>>),
     Result(0 - 1, Now0, <<>>)}

StoreConfigs == {"default/a", "default/b"}
StoreOrganizations == {"acme", "globex"}
StoreRepositories == {"widgets", "gadgets"}

\* the (config, organization, repository) a call or a series is about
IdentityOf(call) == <<call.configName, call.organization, call.repository>>

GaugeVectors ==
    [overallScore |-> overallScore, checkScore |-> checkScore,
     checkStatus |-> checkStatus, lastUpdate |-> lastUpdate]

Log == IF out = NoCall THEN <<>> ELSE out.log

CallUpdateMetrics ==
    /\ Len(Log) < MaxUpserts
    /\ \E c \in StoreConfigs, o \in StoreOrganizations,
          r \in StoreRepositories, d \in StoreResults :
           /\ UpdateMetrics(c, o, r, d)
           /\ arg' = [op |-> "UpdateMetrics", configName |-> c,
                      organization |-> o, repository |-> r, data |-> d]
    /\ out' = [op |-> "UpdateMetrics", log |-> Append(Log, arg'),
               before |-> GaugeVectors, registered |-> registeredMetrics]
    /\ UNCHANGED <<now, passes, passVars, cancelled, workerVars>>

\* RemoveMetricsForConfig is called for a descriptor, as Reconcile calls
\* it when the descriptor is not to be had
CallRemoveMetricsForConfig ==
    /\ \E c \in StoreConfigs :
           /\ RemoveMetricsForConfig(c)
           /\ arg' = [op |-> "RemoveMetricsForConfig", configName |-> c]
    /\ out' = [op |-> "RemoveMetricsForConfig", log |-> Log,
               before |-> GaugeVectors, registered |-> registeredMetrics]
    /\ UNCHANGED <<now, passes, passVars, cancelled, workerVars>>

NextStore ==
    \/ CallUpdateMetrics
    \/ CallRemoveMetricsForConfig

SpecStore == Init /\ [][NextStore]_vars

(***************************************************************************)
(* The metrics collector called by two workers at once, each for the       *)
(* descriptor of its own pass (the work queue hands a descriptor to one    *)
(* worker at a time).  UpdateMetrics is followed statement by statement:   *)
(* upserting[w].pc is the statement worker w stands at, upserting[w].call  *)
(* the arguments of its call and upserting[w].i the position of its loop   *)
(* over the checks.                                                        *)
(***************************************************************************)
\* the statements of UpdateMetrics between Lock and the deferred Unlock
LockedStatements == {"overall", "checks", "register", "unlock"}

Standing(w, statement) == upserting[w].pc = statement

Moved(w, statement) == [upserting EXCEPT ![w].pc = statement]

\* worker w calls UpdateMetrics for the descriptor c of its pass
BeginUpdateMetrics(w, c, r, d) ==
    /\ Standing(w, "idle")
    /\ \A v \in Workers \ {w} :
           upserting[v].pc # "idle" => upserting[v].call.configName # c
    /\ upserting' =
           [upserting EXCEPT
               ![w] = [pc |-> "lock", i |-> 1,
                       call |-> [op |-> "UpdateMetrics", configName |-> c,
                                 organization |-> "acme", repository |-> r,
                                 data |-> d]]]
    /\ UNCHANGED <<now, passes, passVars, cancelled, storeVars, mu,
                   callVars>>

\* c.mu.Lock()
LockCollector(w) ==
    /\ Standing(w, "lock")
    /\ tryLock(mu)
    /\ mu' = w
    /\ upserting' = Moved(w, "overall")
    /\ UNCHANGED <<now, passes, passVars, cancelled, storeVars, callVars>>

\* c.overallScore.With(labels).Set(data.Score)
SetOverallScore(w) ==
    /\ Standing(w, "overall")
    /\ overallScore' = Put(overallScore, IdentityOf(upserting[w].call),
                           upserting[w].call.data.Score)
    /\ upserting' = Moved(w, "checks")
    /\ UNCHANGED <<now, passes, passVars, cancelled, checkScore,
                   checkStatus, lastUpdate, registeredMetrics, mu,
                   callVars>>

\* one iteration of the loop over data.Checks
SetCheck(w) ==
    /\ Standing(w, "checks")
    /\ upserting[w].i <= Len(upserting[w].call.data.Checks)
    /\ LET call == upserting[w].call
           check == call.data.Checks[upserting[w].i]
       IN  /\ checkScore' =
                  setCheckScores(checkScore, call.configName,
                                 call.organization, call.repository,
                                 <<check>>)
           /\ checkStatus' =
                  setCheckStatuses(checkStatus, call.configName,
                                   call.organization, call.repository,
                                   <<check>>)
    /\ upserting' = [upserting EXCEPT ![w].i = @ + 1]
    /\ UNCHANGED <<now, passes, passVars, cancelled, overallScore,
                   lastUpdate, registeredMetrics, mu, callVars>>

\* c.lastUpdate.With(labels).Set(float64(data.Timestamp.Unix()))
SetLastUpdate(w) ==
    /\ Standing(w, "checks")
    /\ upserting[w].i > Len(upserting[w].call.data.Checks)
    /\ lastUpdate' = Put(lastUpdate, IdentityOf(upserting[w].call),
                         upserting[w].call.data.Timestamp)
    /\ upserting' = Moved(w, "register")
    /\ UNCHANGED <<now, passes, passVars, cancelled, overallScore,
                   checkScore, checkStatus, registeredMetrics, mu,
                   callVars>>

\* c.registeredMetrics[metricKey] = true
RegisterMetricKey(w) ==
    /\ Standing(w, "register")
    /\ registeredMetrics' =
           registeredMetrics
           \cup {upserting[w].call.configName \o "/"
                 \o upserting[w].call.organization \o "/"
                 \o upserting[w].call.repository}
    /\ upserting' = Moved(w, "unlock")
    /\ UNCHANGED <<now, passes, passVars, cancelled, overallScore,
                   checkScore, checkStatus, lastUpdate, mu, callVars>>

\* the deferred c.mu.Unlock(), and the return
UnlockCollector(w) ==
    /\ Standing(w, "unlock")
    /\ mu' = ""
    /\ upserting' = Moved(w, "done")
    /\ UNCHANGED <<now, passes, passVars, cancelled, storeVars, callVars>>

NextWorkers ==
    \E w \in Workers :
        \/ \E c \in StoreConfigs, r \in StoreRepositories,
              d \in StoreResults : BeginUpdateMetrics(w, c, r, d)
        \/ LockCollector(w)
        \/ SetOverallScore(w)
        \/ SetCheck(w)
        \/ SetLastUpdate(w)
        \/ RegisterMetricKey(w)
        \/ UnlockCollector(w)

SpecWorkers == Init /\ [][NextWorkers]_vars

(***************************************************************************)
(* The scorecard client called on its own, and its result published as     *)
(* Reconcile publishes it: one call of GetScorecardData for an answer of   *)
(* the score endpoint, then UpdateMetrics with the data it returned.       *)
(***************************************************************************)
\* scores a check may come with, in and out of the range 0..10
CheckScores == {0 - 5, 0 - 1, 0, 1, 3, 4, 5, 7, 10, 11}

\* values of the date field that time.Parse(time.RFC3339, _) rejects
BadDates ==
    {"", "yesterday", "2025-01-06", "2025-01-06 00:00:00",
     "2025-13-01T00:00:00Z"}

ScoredAnswers ==
    {[status |-> 200, body |-> "", decodes |-> TRUE,
      envelope |-> Envelope(6, d, <<APICheck("CI-Tests", c),
                                    APICheck("Fuzzing", 3)>>)] :
        c \in CheckScores, d \in BadDates \cup DOMAIN rfc3339Dates}

ClientCalls ==
    {[op |-> "GetScorecardData", vcsPath |-> "github.com/acme/widgets",
      answer |-> a] : a \in ScoreAnswers \cup ScoredAnswers}

InitClient ==
    /\ Idle
    /\ arg \in ClientCalls
    /\ out = NoCall

CallGetScorecardData ==
    /\ out = NoCall
    /\ LET r == GetScorecardData(arg.vcsPath, "", arg.answer)
       IN  out' = [op |-> "GetScorecardData", data |-> r.data,
                   err |-> r.err, at |-> now]
    /\ UNCHANGED <<now, passes, passVars, cancelled, storeVars, workerVars,
                   arg>>

\* Reconcile hands the data to the collector
PublishScorecardData ==
    /\ out.op = "GetScorecardData"
    /\ out.err = NilErr
    /\ UpdateMetrics("default/a", "acme", "widgets", out.data)
    /\ out' = [out EXCEPT !.op = "UpdateMetrics"]
    /\ UNCHANGED <<now, passes, passVars, cancelled, workerVars, arg>>

NextClient ==
    \/ Tick
    \/ CallGetScorecardData
    \/ PublishScorecardData

SpecClient == InitClient /\ [][NextClient]_vars

(***************************************************************************)
(* The watch of the controller: one event about a ConfigMap comes from the *)
(* API server and is handed to the event filter; what passes is put on the *)
(* work queue as a request for Reconcile.  Beside its labels an object     *)
(* notes whether it was written with the marker label on it.               *)
(***************************************************************************)
LabelCases ==
    {[labels |-> NilLabels, marked |-> FALSE],
     [labels |-> EmptyMap, marked |-> FALSE],
     [labels |-> ("app" :> "exporter"), marked |-> FALSE],
     [labels |-> ("openssf-scorecard.giantswarm.io/Enabled" :> "true"),
      marked |-> FALSE],
     [labels |-> ("openssf-scorecard.giantswarm.io/enabled" :> "true"),
      marked |-> TRUE],
     [labels |-> ("openssf-scorecard.giantswarm.io/enabled" :> "false"),
      marked |-> TRUE],
     [labels |-> ("openssf-scorecard.giantswarm.io/enabled" :> ""),
      marked |-> TRUE],
     [labels |-> ("app" :> "exporter")
                 @@ ("openssf-scorecard.giantswarm.io/enabled" :> "no"),
      marked |-> TRUE]}

WatchedObjects ==
    {[name |-> c, labels |-> l.labels, marked |-> l.marked] :
        c \in Configs, l \in LabelCases}

WatchEvents ==
    {[op |-> "event", type |-> t, object |-> o] :
        t \in {"Create", "Delete", "Generic"}, o \in WatchedObjects}
    \cup {[op |-> "event", type |-> "Update", objectOld |-> e[1],
           objectNew |-> e[2]] :
             e \in {p \in WatchedObjects \X WatchedObjects :
                       p[1].name = p[2].name}}

InitWatch ==
    /\ Idle
    /\ arg \in WatchEvents
    /\ out = NoCall

\* the event is filtered and, if it passes, its object is enqueued
HandleEvent ==
    /\ out = NoCall
    /\ out' = [op |-> "event",
               queue |-> IF ~eventPasses(arg) THEN <<>>
                         ELSE IF arg.type = "Update"
                         THEN <<arg.objectNew.name>>
                         ELSE <<arg.object.name>>]
    /\ UNCHANGED <<now, passes, passVars, cancelled, storeVars, workerVars,
                   arg>>

NextWatch == HandleEvent

SpecWatch == InitWatch /\ [][NextWatch]_vars

(***************************************************************************)
(* Properties of the provider's error classification.                      *)
(***************************************************************************)
\* C11: whenever a page fetch of the listing is answered with HTTP 403 or
\* 429, or the client library raises a typed rate-limit error, the error
\* GetRepositories returns satisfies IsRateLimitError.
C11_ForbiddenOrThrottledIsRateLimit ==
    (/\ listErr # NilErr
     /\ \/ listResp.status \in {403, 429}
        \/ AsRateLimitError(listErr) # NilErr)
    => IsRateLimitError(listErr)

\* C12: whenever the single-repository fetch is answered with HTTP 403 or
\* 429, or the client library raises a typed rate-limit error, the error
\* GetRepositoryDetails returns satisfies IsRateLimitError.
C12_DetailsForbiddenOrThrottledIsRateLimit ==
    (/\ out.op = "GetRepositoryDetails"
     /\ \/ arg.answer.status \in {403, 429}
        \/ AsRateLimitError(out.err) # NilErr)
    => (out.err # NilErr /\ IsRateLimitError(out.err))

\* the delay the headers of a 403 or 429 answer ask for
HeaderDelay(resp) ==
    IF Atoi(resp.retryAfter).ok /\ Atoi(resp.retryAfter).val > 0
    THEN Atoi(resp.retryAfter).val
    ELSE IF Atoi(resp.reset).ok /\ Atoi(resp.reset).val > now
    THEN Atoi(resp.reset).val - now
    ELSE 300

\* C13: a listing answered with HTTP 403 or 429 yields an error whatever
\* headers are absent or unparsable, and GetRetryAfter of that error is the
\* Retry-After value when it is a positive integer, otherwise reset minus
\* now when the reset header is a time in the future, otherwise 5 minutes.
C13_DelayFromHeaders ==
    (/\ out.op = "GetRepositories"
     /\ out.resp.status \in {403, 429}
     /\ out.at = now)
    => /\ out.err # NilErr
       /\ GetRetryAfter(out.err) = HeaderDelay(out.resp)

\* C14: IsRateLimitError answers true exactly for a non-nil error that has
\* a RateLimitError in it, directly or at any depth of wrapping, or whose
\* message holds one of the seven indicators in any capitalisation; it
\* answers false for nil, "connection timeout" and "invalid credentials".
C14_IsRateLimitExactly ==
    out.op = "IsRateLimitError"
    => /\ out.result <=> (/\ arg.err # NilErr
                          /\ arg.signal # NilErr \/ arg.mentions)
       /\ arg.err \in {NilErr, Errorf("connection timeout"),
                       Errorf("invalid credentials")} => ~out.result

C14_Witness ==
    /\ out.op = "IsRateLimitError"
    /\ arg.err = Errorf("Too Many Requests")
    /\ out.result

\* C15: GetRetryAfter of nil is 0; of an error with a RateLimitError in it,
\* direct or wrapped, it is the explicit RetryAfter when that is above 0,
\* whatever the reset time; otherwise the reset time minus now when the
\* reset time is set and in the future; otherwise the 5-minute default.
C15_RetryDelayPriority ==
    out.op = "GetRetryAfter"
    => /\ arg.err = NilErr => out.result = 0
       /\ (arg.signal # NilErr /\ arg.signal.RetryAfter > 0)
          => out.result = arg.signal.RetryAfter
       /\ (/\ arg.signal # NilErr
           /\ arg.signal.RetryAfter <= 0
           /\ arg.signal.ResetTime # ZeroTime
           /\ arg.signal.ResetTime > out.at)
          => out.result = arg.signal.ResetTime - out.at
       /\ (/\ arg.signal # NilErr
           /\ arg.signal.RetryAfter <= 0
           /\ \/ arg.signal.ResetTime = ZeroTime
              \/ arg.signal.ResetTime <= out.at)
          => out.result = 5 * 60

C15_Witness ==
    /\ out.op = "GetRetryAfter"
    /\ arg.err.kind = "wrapped"
    /\ arg.signal # NilErr
    /\ arg.signal.RetryAfter = 600
    /\ arg.signal.ResetTime = Now0 + 900
    /\ out.result = 600

\* C16: GetRetryAfter of a non-nil error is above 0 whatever the error's
\* RetryAfter and ResetTime hold; an error that is no rate-limit error
\* gets the 5-minute default; and the reconciler, when it takes a failed
\* listing for a rate limit, requeues after a delay above 0.
C16_RetryDelayPositive ==
    /\ (out.op = "GetRetryAfter" /\ arg.err # NilErr)
       => /\ out.result > 0
          /\ (arg.signal = NilErr /\ ~arg.mentions) => out.result = 5 * 60
    /\ (out.op = "ReconcileListError" /\ out.pc = "retRateLimited")
       => out.ret.RequeueAfter > 0

C16_Witness ==
    /\ out.op = "GetRetryAfter"
    /\ arg.signal # NilErr
    /\ arg.signal.RetryAfter < 0
    /\ arg.signal.ResetTime = out.at
    /\ out.result = 5 * 60

(***************************************************************************)
(* Properties of the repository listing.                                   *)
(***************************************************************************)
\* the answer to the k-th request of a listing
AnswerAt(listing, k) == IF k <= Len(listing) THEN listing[k] ELSE EmptyPage

\* the first request of a listing whose answer is a failure or names no
\* next page
StopsAt(listing) ==
    CHOOSE k \in 1..(Len(listing) + 1) :
        /\ \/ AnswerAt(listing, k).status # 200
           \/ AnswerAt(listing, k).nextPage = 0
        /\ \A j \in 1..(k - 1) :
               /\ AnswerAt(listing, j).status = 200
               /\ AnswerAt(listing, j).nextPage # 0

RECURSIVE ListedIn(_, _)
ListedIn(listing, n) ==
    IF n = 0 THEN <<>>
    ELSE ListedIn(listing, n - 1) \o AnswerAt(listing, n).items

\* the positions of a sequence of listed repositories that hold a
\* repository that is not private, archived, disabled or a fork
Eligible(listed) ==
    {i \in 1..Len(listed) :
        /\ listed[i] # NilRepo
        /\ ~listed[i].Private
        /\ ~listed[i].Archived
        /\ ~listed[i].Disabled
        /\ ~listed[i].Fork}

\* C18: a successful GetRepositories returns one name for each repository
\* the backend listed that is not private, archived, disabled or a fork,
\* and no other name, in the order of the listing across its pages.
C18_ExactlyEligibleInOrder ==
    (out.op = "GetRepositories" /\ out.err = NilErr)
    => LET listed == ListedIn(arg.listing, out.requests)
           keep == Eligible(listed)
       IN  /\ Len(out.repos) = Cardinality(keep)
           /\ \A i \in keep :
                  out.repos[Cardinality({j \in keep : j <= i})]
                  = listed[i].Name

C18_Witness ==
    /\ out.op = "GetRepositories"
    /\ arg.listing = FullThenMixed
    /\ out.err = NilErr
    /\ Len(out.repos) = 87
    /\ out.repos[86] = "r100"
    /\ out.repos[87] = "gadgets"

(***************************************************************************)
(* Properties of the metrics collector.                                    *)
(***************************************************************************)
SeriesIdentity(key) == <<key[1], key[2], key[3]>>

\* the value of the status series for each status of a check
StatusValue == ("Pass" :> 1) @@ ("Fail" :> 0) @@ ("Unknown" :> (0 - 1))

\* the series of a vector outside an identity are those of another vector
SameElsewhere(vec, old, id) ==
    \A k \in (DOMAIN vec) \cup (DOMAIN old) :
        SeriesIdentity(k) # id
        => (k \in DOMAIN vec /\ k \in DOMAIN old /\ vec[k] = old[k])

\* C19: after UpdateMetrics(config, org, repo, data) the overall-score
\* series of (config, org, repo) holds data.Score, for each check of data
\* the score series of (config, org, repo, check) holds the check's score
\* and the status series the value of its status, the last-update series
\* holds the Unix seconds of data.Timestamp, and every series of another
\* (config, org, repo) is as it was before the call.
C19_UpsertSetsOwnSeries ==
    out.op = "UpdateMetrics"
    => LET id == IdentityOf(arg)
           checks == arg.data.Checks
       IN  /\ id \in DOMAIN overallScore
           /\ overallScore[id] = arg.data.Score
           /\ id \in DOMAIN lastUpdate
           /\ lastUpdate[id] = arg.data.Timestamp
           /\ \A i \in 1..Len(checks) :
                  LET k == id \o <<checks[i].Name>>
                  IN  /\ k \in DOMAIN checkScore
                      /\ checkScore[k] = checks[i].Score
                      /\ k \in DOMAIN checkStatus
                      /\ checkStatus[k] = StatusValue[checks[i].Status]
           /\ SameElsewhere(overallScore, out.before.overallScore, id)
           /\ SameElsewhere(lastUpdate, out.before.lastUpdate, id)
           /\ SameElsewhere(checkScore, out.before.checkScore, id)
           /\ SameElsewhere(checkStatus, out.before.checkStatus, id)

C19_Witness ==
    /\ out.op = "UpdateMetrics"
    /\ Len(out.log) = 2
    /\ IdentityOf(out.log[1]) = <<"default/a", "acme", "widgets">>
    /\ IdentityOf(arg) = <<"default/b", "acme", "widgets">>
    /\ arg.data.Score = 4
    /\ checkStatus[<<"default/b", "acme", "widgets", "Fuzzing">>] = 0 - 1
    /\ overallScore[<<"default/a", "acme", "widgets">>] = 7

\* the calls of a log that wrote the series of a key: those about its
\* identity and, for a series of a check, with a check of that name
Writers(log, key) ==
    {i \in 1..Len(log) :
        /\ IdentityOf(log[i]) = SeriesIdentity(key)
        /\ Len(key) = 4
           => \E j \in 1..Len(log[i].data.Checks) :
                  log[i].data.Checks[j].Name = key[4]}

LastWriter(log, key) ==
    CHOOSE i \in Writers(log, key) : \A j \in Writers(log, key) : j <= i

\* the check of a call that has the name a key ends with
CheckOf(call, key) ==
    call.data.Checks[CHOOSE j \in 1..Len(call.data.Checks) :
                         call.data.Checks[j].Name = key[4]]

\* the keys a log wrote, per identity and per identity and check
WrittenIdentities(log) == {IdentityOf(log[i]) : i \in 1..Len(log)}

WrittenCheckKeys(log) ==
    UNION {{IdentityOf(log[i]) \o <<log[i].data.Checks[j].Name>> :
               j \in 1..Len(log[i].data.Checks)} : i \in 1..Len(log)}

\* C20: after any sequence of calls of UpdateMetrics every vector holds
\* one series for each key some call wrote and no other, the value of a
\* series is the one the last call that wrote its key gave it, and a call
\* with the arguments of the call before it leaves every vector as it was.
C20_LastWriteWins ==
    out.op = "UpdateMetrics"
    => /\ DOMAIN overallScore = WrittenIdentities(out.log)
       /\ DOMAIN lastUpdate = WrittenIdentities(out.log)
       /\ DOMAIN checkScore = WrittenCheckKeys(out.log)
       /\ DOMAIN checkStatus = WrittenCheckKeys(out.log)
       /\ \A k \in DOMAIN overallScore :
              /\ overallScore[k] = out.log[LastWriter(out.log, k)].data.Score
              /\ lastUpdate[k]
                 = out.log[LastWriter(out.log, k)].data.Timestamp
       /\ \A k \in DOMAIN checkScore :
              LET last == CheckOf(out.log[LastWriter(out.log, k)], k)
              IN  /\ checkScore[k] = last.Score
                  /\ checkStatus[k] = StatusValue[last.Status]
       /\ (/\ Len(out.log) >= 2
           /\ out.log[Len(out.log)] = out.log[Len(out.log) - 1])
          => GaugeVectors = out.before

C20_Witness ==
    /\ out.op = "UpdateMetrics"
    /\ Len(out.log) = 2
    /\ IdentityOf(out.log[1]) = IdentityOf(out.log[2])
    /\ out.log[1].data.Score = 7
    /\ out.log[2].data.Score = 4
    /\ overallScore = (IdentityOf(arg) :> 4)
    /\ checkScore[IdentityOf(arg) \o <<"CI-Tests">>] = 0

\* the series of the four vectors hold what a call gave them
HoldsValuesOf(call) ==
    LET id == IdentityOf(call)
        checks == call.data.Checks
    IN  /\ id \in DOMAIN overallScore
        /\ overallScore[id] = call.data.Score
        /\ id \in DOMAIN lastUpdate
        /\ lastUpdate[id] = call.data.Timestamp
        /\ \A i \in 1..Len(checks) :
               LET k == id \o <<checks[i].Name>>
               IN  /\ k \in DOMAIN checkScore
                   /\ checkScore[k] = checks[i].Score
                   /\ k \in DOMAIN checkStatus
                   /\ checkStatus[k] = StatusValue[checks[i].Status]

\* C21: when workers call UpdateMetrics at the same time for different
\* descriptors, at most one of them is between Lock and Unlock and that
\* one holds the lock, and a worker whose call has returned finds the
\* series of its (config, org, repo) holding the values it wrote, whatever
\* the other worker has done before, meanwhile or since.
C21_ConcurrentUpsertsKept ==
    /\ \A w \in Workers :
           upserting[w].pc \in LockedStatements => mu = w
    /\ Cardinality({w \in Workers :
                       upserting[w].pc \in LockedStatements}) <= 1
    /\ \A w \in Workers :
           upserting[w].pc = "done" => HoldsValuesOf(upserting[w].call)

C21_Witness ==
    /\ upserting["w1"].pc = "done"
    /\ upserting["w2"].pc = "done"
    /\ IdentityOf(upserting["w1"].call) = <<"default/a", "acme", "widgets">>
    /\ IdentityOf(upserting["w2"].call) = <<"default/b", "acme", "gadgets">>
    /\ upserting["w1"].call.data.Score = 7
    /\ upserting["w2"].call.data.Score = 4
    /\ overallScore[<<"default/a", "acme", "widgets">>] = 7
    /\ overallScore[<<"default/b", "acme", "gadgets">>] = 4

\* the series of a descriptor that the four vectors hold
SeriesOf(configName) ==
    {k \in (DOMAIN overallScore) \cup (DOMAIN checkScore)
            \cup (DOMAIN checkStatus) \cup (DOMAIN lastUpdate) :
        k[1] = configName}

\* C22: after RemoveMetricsForConfig(configName) has returned, none of the
\* four vectors holds a series of that descriptor.
C22_RetireRemovesSeries ==
    out.op = "RemoveMetricsForConfig" => SeriesOf(arg.configName) = {}

(***************************************************************************)
(* Properties of the scorecard client.                                     *)
(***************************************************************************)
\* C23: a check that the score endpoint returns with score s gets the
\* status Fail when 0 <= s < 5, Pass when s >= 5 and Unknown when s is
\* negative, and once published its status series holds 0 for Fail, 1 for
\* Pass and -1 for Unknown: 7 gives 1, 3 and 0 give 0, -1 gives -1.
C23_StatusFromScore ==
    (out.op \in {"GetScorecardData", "UpdateMetrics"} /\ out.err = NilErr)
    => \A i \in 1..Len(arg.answer.envelope.checks) :
           LET check == arg.answer.envelope.checks[i]
               score == check.score
               status == out.data.Checks[i].Status
               key == <<"default/a", "acme", "widgets", check.name>>
               value == checkStatus[key]
           IN  /\ (score >= 0 /\ score < 5) => status = "Fail"
               /\ score >= 5 => status = "Pass"
               /\ score < 0 => status = "Unknown"
               /\ out.op = "UpdateMetrics"
                  => /\ key \in DOMAIN checkStatus
                     /\ status = "Fail" => value = 0
                     /\ status = "Pass" => value = 1
                     /\ status = "Unknown" => value = 0 - 1
                     /\ score = 7 => value = 1
                     /\ score \in {0, 3} => value = 0
                     /\ score = 0 - 1 => value = 0 - 1

C23_Witness ==
    /\ out.op = "UpdateMetrics"
    /\ arg.answer.envelope.checks[1].score = 0 - 1
    /\ out.data.Checks[1].Status = "Unknown"
    /\ checkStatus[<<"default/a", "acme", "widgets", "CI-Tests">>] = 0 - 1
    /\ checkStatus[<<"default/a", "acme", "widgets", "Fuzzing">>] = 0

\* C29: when the score endpoint answers 200 with a body that decodes and
\* whose date is missing or is no RFC 3339 time, GetScorecardData returns
\* no error and data with the score, the repository, the commit and the
\* checks of the body, and with the time of the call as its timestamp.
C29_BadDateFallsBackToNow ==
    (/\ out.op = "GetScorecardData"
     /\ arg.answer.status = 200
     /\ arg.answer.decodes
     /\ arg.answer.envelope.date \in BadDates)
    => LET body == arg.answer.envelope
       IN  /\ out.err = NilErr
           /\ out.data.Score = body.score
           /\ out.data.Repository = body.repo.name
           /\ out.data.Commit = body.repo.commit
           /\ Len(out.data.Checks) = Len(body.checks)
           /\ \A i \in 1..Len(body.checks) :
                  /\ out.data.Checks[i].Name = body.checks[i].name
                  /\ out.data.Checks[i].Score = body.checks[i].score
                  /\ out.data.Checks[i].Reason = body.checks[i].reason
           /\ out.data.Timestamp = out.at

C29_Witness ==
    /\ out.op = "GetScorecardData"
    /\ arg.answer.envelope.date = "2025-01-06"
    /\ out.err = NilErr
    /\ out.at = Now0 + 1
    /\ out.data.Timestamp = Now0 + 1
    /\ out.data.Score = 6

(***************************************************************************)
(* Properties of the provider factory and of the scorecard path.           *)
(***************************************************************************)
\* C26: CreateProvider returns no provider and the error "unsupported
\* provider type: <kind>" for every kind other than the registered
\* "github", the declared "gitlab" and "bitbucket" included, whatever the
\* token and the base URL; for "github" it returns what NewGitHubProvider
\* returns: a provider, or no provider and the error of the base URL.
C26_UnsupportedKindRefused ==
    out.op = "CreateProvider"
    => /\ arg.config.Type # "github"
          => /\ out.provider = NilProvider
             /\ out.err.kind = "error"
             /\ out.err.msg = "unsupported provider type: " \o arg.config.Type
       /\ arg.config.Type = "github"
          => /\ out.provider = NewGitHubProvider(arg.config).provider
             /\ out.err = NewGitHubProvider(arg.config).err
             /\ arg.config.BaseURL = "http://[::1"
                <=> (out.provider = NilProvider /\ out.err # NilErr)
             /\ arg.config.BaseURL = ""
                => out.provider.BaseURL = "https://api.github.com/"

C26_Witness ==
    /\ out.op = "CreateProvider"
    /\ arg.config.Type = "gitlab"
    /\ arg.config.Token = "ghp_1"
    /\ out.provider = NilProvider
    /\ out.err = Errorf("unsupported provider type: gitlab")

\* C27: GetScorecardURL(org, repo) is "github.com/<org>/<repo>" for every
\* provider the factory makes, whatever token and base URL the provider
\* was made with.
C27_ScorecardPathOfOrgAndRepo ==
    out.op = "GetScorecardURL"
    => out.result
       = "github.com/" \o arg.organization \o "/" \o arg.repository

C27_Witness ==
    /\ out.op = "GetScorecardURL"
    /\ arg.provider.token = "ghp_1"
    /\ arg.provider.BaseURL = "https://ghe.example/api/v3/"
    /\ out.result = "github.com/globex/gadgets"

(***************************************************************************)
(* Properties of the watch.                                                *)
(***************************************************************************)
\* the descriptor an event is about, as it is after the event
DescriptorOf(event) ==
    IF event.type = "Update" THEN event.objectNew ELSE event.object

Unset(key) == key \notin DOMAIN configMap \/ configMap[key] = ""

\* the statements of Reconcile after the credential has been dealt with
AfterCredential ==
    {"provider", "list", "loop", "retProviderError", "retRateLimited",
     "retListError", "retFetchError", "retCompleted"}

\* C30: in a pass whose descriptor names an organization, a providerType
\* that is missing or empty makes the pass use "github"; a tokenSecretKey
\* that is missing or empty makes it read the key "token" of the secret;
\* and a tokenSecret that is missing or empty makes it read no secret and
\* go on to the provider and the listing with an empty token.
C30_DescriptorDefaults ==
    pc \in {"credential", "retSecretError", "retNoTokenKey"}
            \cup AfterCredential
    => /\ Unset("providerType") => providerType = "github"
       /\ (/\ Unset("tokenSecretKey")
           /\ calls.GetSecret = 1
           /\ secret.err = NilErr)
          => IF "token" \in DOMAIN secret.Data
             THEN pc \in AfterCredential /\ vcsToken = secret.Data["token"]
             ELSE pc = "retNoTokenKey"
       /\ Unset("tokenSecret")
          => /\ pc \notin {"retSecretError", "retNoTokenKey"}
             /\ calls.GetSecret = 0
             /\ \A i \in 1..Len(trace) : trace[i].op # "GetSecret"
             /\ vcsToken = ""
             /\ provider # NilProvider => provider.token = ""

C30_Witness ==
    /\ pc = "retCompleted"
    /\ configMap = Org @@ (TokenSecretKey :> "gh-token")
    /\ providerType = "github"
    /\ vcsToken = "ghp_1"
    /\ Len(repos) = 1

(***************************************************************************)
(* Properties of the order of a pass.                                      *)
(***************************************************************************)
IsFetch(e) == e.op = "GetScorecardData"

IsUpsert(e) == e.op = "UpdateMetrics"

\* the fetches and the upserts of the pass, in the order they were made
Fetches == SelectSeq(trace, IsFetch)

Upserts == SelectSeq(trace, IsUpsert)

\* how often the pass fetched the score of a repository
TimesFetched(name) ==
    Cardinality({i \in 1..Len(Fetches) :
                    Fetches[i].what
                    = "github.com/" \o organization \o "/" \o name})

\* C24 as first stated, for the part on fetching once: no repository of
\* the listing is fetched twice in a pass.
C24_EachRepositoryOnce ==
    \A i \in 1..Len(repos) : TimesFetched(repos[i]) <= 1

\* C24: in a pass every request of the listing comes before the first
\* fetch; the j-th fetch is for the repository at position j of the
\* listing and the j-th upsert for that same repository, so that every
\* position is fetched at most once (a repository the backend lists twice
\* is fetched once for each position); every upsert comes right after the
\* fetch of its repository; and every fetch but the first comes right
\* after the upsert of the position before.
C24_SequentialInListingOrder ==
    /\ \A i, j \in 1..Len(trace) :
           (trace[i].op = "ListByOrg" /\ (IsFetch(trace[j])
                                          \/ IsUpsert(trace[j])))
           => i < j
    /\ Len(Fetches) <= Len(repos)
    /\ Len(Upserts) <= Len(Fetches)
    /\ Len(Fetches) <= Len(Upserts) + 1
    /\ \A j \in 1..Len(Fetches) :
           Fetches[j].what
           = "github.com/" \o organization \o "/" \o repos[j]
    /\ \A j \in 1..Len(Upserts) : Upserts[j].what = repos[j]
    /\ \A i \in 1..Len(trace) :
           /\ IsUpsert(trace[i]) => (i > 1 /\ IsFetch(trace[i - 1]))
           /\ (IsFetch(trace[i]) /\ \E j \in 1..(i - 1) : IsFetch(trace[j]))
              => IsUpsert(trace[i - 1])

C24_Witness ==
    /\ pc = "retCompleted"
    /\ repos = <<"gadgets", "widgets">>
    /\ Len(Fetches) = 2
    /\ Len(Upserts) = 2
    /\ trace[Len(trace)] = Event("UpdateMetrics", "widgets")

SendsRequest ==
    /\ trace' # trace
    /\ trace'[Len(trace')].op \in {"ListByOrg", "GetScorecardData"}

CheckKeysOf(vec, id) == {k \in DOMAIN vec : SeriesIdentity(k) = id}

\* the keys of the checks a result names, for an identity
NamedCheckKeys(id, data) ==
    {id \o <<data.Checks[i].Name>> : i \in 1..Len(data.Checks)}

\* C31: after UpdateMetrics(config, org, repo, data) the score and status
\* series of checks that (config, org, repo) has are those of the checks
\* that data names and no other; after the upsert of the "not found"
\* sentinel, which names no check, the repository has none.
C31_OnlyNamedChecksRemain ==
    out.op = "UpdateMetrics"
    => /\ CheckKeysOf(checkScore, IdentityOf(arg))
          = NamedCheckKeys(IdentityOf(arg), arg.data)
       /\ CheckKeysOf(checkStatus, IdentityOf(arg))
          = NamedCheckKeys(IdentityOf(arg), arg.data)

\* the registered keys that are about a descriptor
KeysOfConfig(keys, configName) ==
    {k \in keys :
        \E o \in StoreOrganizations, r \in StoreRepositories :
            k = configName \o "/" \o o \o "/" \o r}

\* C34: RemoveMetricsForConfig(configName) leaves the registered keys of
\* every other descriptor, and the series of every other descriptor, as
\* they were before the call.
C34_RetireLeavesOtherConfigs ==
    out.op = "RemoveMetricsForConfig"
    => /\ \A c \in StoreConfigs \ {arg.configName} :
              KeysOfConfig(registeredMetrics, c)
              = KeysOfConfig(out.registered, c)
       /\ \A c \in StoreConfigs \ {arg.configName} :
              \A vec \in {"overallScore", "checkScore", "checkStatus",
                          "lastUpdate"} :
                  \A k \in (DOMAIN GaugeVectors[vec])
                            \cup (DOMAIN out.before[vec]) :
                      k[1] = c
                      => /\ k \in DOMAIN GaugeVectors[vec]
                         /\ k \in DOMAIN out.before[vec]
                         /\ GaugeVectors[vec][k] = out.before[vec][k]

(***************************************************************************)
(* Properties of the passes that follow one another.                       *)
(***************************************************************************)
\* the repositories that have an overall-score series under a descriptor
\* and an organization
PublishedRepositories(configName, org) ==
    {k[3] : k \in {j \in DOMAIN overallScore :
                      j[1] = configName /\ j[2] = org}}

\* C32: when a pass has completed, the repositories that have a series
\* under its descriptor and organization are those its listing returned.
C32_PublishedAreListed ==
    pc = "retCompleted"
    => PublishedRepositories(req, organization)
       = {repos[i] : i \in 1..Len(repos)}

\* C33: a pass whose read of the descriptor fails with an error other
\* than "not found", which is the error it returns, does not call
\* RemoveMetricsForConfig.
C33_TransientLoadErrorKeepsStore ==
    (pc = "retConfigGone" /\ ret.err # NilErr)
    => calls.RemoveMetricsForConfig = 0

(***************************************************************************)
(* Properties of a listing that fails.                                     *)
(***************************************************************************)
\* C35: when the request of any page of the listing fails, on the first
\* page or on a later one, GetRepositories returns the error with no
\* repository, the names of the pages before being dropped, and the pass
\* ends there: it fetches no score and upserts nothing.
C35_FailedListingReturnsNothing ==
    listErr # NilErr
    => /\ repos = <<>>
       /\ pc \in {"retRateLimited", "retListError"}
       /\ calls.GetScorecardData = 0
       /\ calls.UpdateMetrics = 0
       /\ \A i \in 1..Len(trace) :
              trace[i].op \notin {"GetScorecardData", "UpdateMetrics"}

C35_Witness ==
    /\ listErr # NilErr
    /\ calls.ListByOrg = 2
    /\ listResp.status = 500
    /\ pc = "retListError"
    /\ repos = <<>>
    /\ calls.UpdateMetrics = 0

(***************************************************************************)
(* Properties of the builder of RateLimitError.                            *)
(***************************************************************************)
\* the fields each step of the builder is to set
FieldsOf ==
    ("WithRetryAfter" :> {"RetryAfter"})
    @@ ("WithResetTime" :> {"ResetTime"})
    @@ ("WithRateLimitInfo" :> {"Limit", "Remaining"})

\* the value each field is given by the step that sets it
GivenValue ==
    [RetryAfter |-> arg.duration, ResetTime |-> arg.resetTime,
     Limit |-> arg.limit, Remaining |-> arg.remaining]

\* C36: a step of the builder gives its own fields the values it was
\* called with and leaves Provider, Message and the fields of the other
\* steps as they were, so that once the three steps have been applied, in
\* whatever order, the error has the provider and the message it was made
\* with and the four values given.
C36_BuilderStepsSetOwnFields ==
    out.op \in BuilderSteps
    => /\ \A f \in FieldsOf[out.op] : out.e[f] = GivenValue[f]
       /\ \A f \in (DOMAIN out.e) \ FieldsOf[out.op] :
              out.e[f] = out.before[f]
       /\ DOMAIN out.e = DOMAIN out.before
       /\ out.e.Provider = arg.provider
       /\ out.e.Message = arg.message
       /\ Len(out.steps) = 3
          => out.e = [kind |-> "RateLimitError", Provider |-> arg.provider,
                      Message |-> arg.message, RetryAfter |-> arg.duration,
                      ResetTime |-> arg.resetTime, Limit |-> arg.limit,
                      Remaining |-> arg.remaining]

C36_Witness ==
    /\ out.op = "WithRetryAfter"
    /\ out.steps = <<"WithRateLimitInfo", "WithResetTime", "WithRetryAfter">>
    /\ out.e.Provider = ProviderTypeGitHub
    /\ out.e.RetryAfter = 600
    /\ out.e.ResetTime = Now0 + 600
    /\ out.e.Limit = 5000
    /\ out.e.Remaining = 0

====
